---- MODULE Spec2Model ----
(***************************************************************************)
(* A model of jrsls, a language-server backend for Java: the global index  *)
(* (src/src/state.rs), the declaration indexer (src/src/indexer.rs), the   *)
(* document handlers (src/src/backend.rs) and the resolver                 *)
(* (src/src/lang/java.rs, src/src/utils.rs).                               *)
(*                                                                         *)
(* Dotted names (packages, imports, FQCNs, FQMNs) are sequences of their   *)
(* segments: "org.x.C" is <<"org","x","C">>.  A string test such as        *)
(* ends_with(".C") is the same test on the last segment.                   *)
(***************************************************************************)
EXTENDS Integers, Sequences, FiniteSets, TLC

VARIABLES
    handles,    \* GlobalIndex.handles: uri -> the FileIndex inputs, or Vacant
    lastCall,   \* history: the arguments of the last upsert_file per uri
    calls,      \* history: upsert_file calls per uri, counted up to MaxCalls
    storage,    \* who holds GlobalIndex.storage (the Mutex)
    wpc,        \* the thread inside upsert_file: its position
    wargs,      \* its arguments
    rpc,        \* the thread inside a lookup: its position
    rq,         \* the lookup it runs and its arguments
    racc,       \* what it has read so far
    stable,     \* history: handles as the last completed upsert_file left it
    seen,       \* history: the values of stable during the running lookup
    documents,  \* LspBackend.documents: uri -> Document {text, tree}, or NoDoc
    disk,       \* the .java files under the workspace root
    ipc,        \* the `initialized` handler: its position
    dpc,        \* the did_change handler: its position
    pending,    \* the content changes did_change has not processed yet
    prev,       \* history: rope and pending changes before the last change,
                \* and the changes the event has skipped
    crashed,    \* a handler panicked: the server process is gone
    gdoc,       \* the open document the resolver is asked about
    gres,       \* the last use goto_definition was asked for, and its answer
    scored,     \* the last pair calculate_score was applied to, and its score
    comp,       \* the last completion request, and the labels it returned
    tasks,      \* the handlers in progress: what each runs and where it is
    shards,     \* LspBackend.documents: who holds the lock of each shard
    shardOf,    \* the shard the hash of each document uri falls in
    parser,     \* who holds the Mutex of the java parser
    opened      \* the uris LspBackend.documents has an entry for

idxVars == <<handles, lastCall, calls>>
concVars == <<storage, wpc, wargs, rpc, rq, racc, stable, seen>>
docVars == <<documents, disk, ipc, dpc, pending, prev, crashed>>
gotoVars == <<gdoc, gres>>
lockVars == <<tasks, shards, shardOf, parser, opened>>
callVars == <<scored, comp, lockVars>>
vars == <<idxVars, concVars, docVars, gotoVars, callVars>>

(* What the actions of one specification leave alone. *)
idxRest == <<concVars, docVars, gotoVars, callVars>>
concRest == <<docVars, gotoVars, callVars>>
docRest == <<lastCall, calls, concVars, gotoVars, callVars>>
gotoRest == <<lastCall, calls, concVars, docVars, callVars>>

MaxClasses == 2     \* class-like declarations in one file
MaxCalls == 2       \* the history counter calls[u] stops here

(***************************************************************************)
(* Generic helpers.                                                        *)
(***************************************************************************)
SeqsUpTo(S, n) == UNION {[1..k -> S] : k \in 0..n}

RECURSIVE Flatten(_)
Flatten(ss) == IF ss = <<>> THEN <<>> ELSE Head(ss) \o Flatten(Tail(ss))

Range(s) == {s[i] : i \in 1..Len(s)}

Perms(S) == {p \in [1..Cardinality(S) -> S] : Range(p) = S}

(* Option<T>: a dotted name is never empty, so None is the empty sequence;   *)
(* an absent record is a record of its own.                                *)
None == <<>>
NoInfo == [absent |-> TRUE]

(***************************************************************************)
(* InferredType.                                                           *)
(***************************************************************************)
Prim(t) == [tag |-> t, name |-> ""]
Class(n) == [tag |-> "Class", name |-> n]
Unknown == Prim("Unknown")
TypeNames == {"C", "Object", "PrintStream"}
InferredTypes ==
    {Prim(t) : t \in {"Int", "Long", "Boolean", "Char", "String", "Float", "Double"}}
    \cup {Class(n) : n \in TypeNames} \cup {Unknown}

(* parse_java_type: the text of a type node. *)
parse_java_type(text) ==
    CASE text \in {"int", "Integer"} -> Prim("Int")
      [] text \in {"long", "Long"} -> Prim("Long")
      [] text \in {"boolean", "Boolean"} -> Prim("Boolean")
      [] text \in {"char", "Character"} -> Prim("Char")
      [] text \in {"float", "Float"} -> Prim("Float")
      [] text \in {"double", "Double"} -> Prim("Double")
      [] text = "String" -> Prim("String")
      [] OTHER -> Class(text)

(***************************************************************************)
(* Source files, as the tree-sitter Java grammar shows them to the query   *)
(* of the indexer: a package declaration, import declarations, and the     *)
(* class-like declarations in document order; outer = 0 for a top-level    *)
(* declaration, else the position of the enclosing declaration.  members   *)
(* are the method_declaration / variable_declarator children of its body.  *)
(***************************************************************************)
ClassNames == {"C", "D"}
MemberNames == {"m"}
Packages == {<<>>, <<"org", "x">>}
ImportLists == {<<>>, <<<<"org", "x", "C">>>>}

(* A method_declaration: its name, the texts of the types of its           *)
(* parameters, whether the last parameter is a spread_parameter, and the   *)
(* text of its return type.  A variable_declarator of a field_declaration: *)
(* its name and the text of the declared type.                             *)
MethodOf(n, ps, va, t) ==
    [name |-> n, is_field |-> FALSE, params |-> ps, varargs |-> va, type |-> t]
FieldOf(n, t) ==
    [name |-> n, is_field |-> TRUE, params |-> <<>>, varargs |-> FALSE, type |-> t]
Method(n) == MethodOf(n, <<>>, FALSE, "void")
Field(n) == FieldOf(n, "int")

ClassDecl(n, o, ms) == [name |-> n, outer |-> o, members |-> ms]

(* The class-like declarations the index specification draws from: both    *)
(* names, top-level and nested in the first declaration, with a method, a  *)
(* field or no member.                                                     *)
IndexClassDecls ==
    {ClassDecl("C", 0, <<>>), ClassDecl("C", 1, <<Field("m")>>),
     ClassDecl("D", 0, <<Method("m")>>), ClassDecl("D", 1, <<>>)}

IndexClassLists ==
    {cs \in SeqsUpTo(IndexClassDecls, MaxClasses) :
        \A i \in 1..Len(cs) : cs[i].outer < i}

IndexFiles == [pkg : Packages, imports : ImportLists, classes : IndexClassLists]

(* The library files of the second uri: one top-level class C. *)
LibFiles ==
    [pkg : Packages, imports : {<<>>},
     classes : {<<ClassDecl("C", 0, <<>>)>>, <<ClassDecl("C", 0, <<Method("m")>>)>>}]

(***************************************************************************)
(* URIs.  Url::parse fails on a relative reference; the URIs the server    *)
(* passes come from Url::to_string and parse to themselves.                *)
(***************************************************************************)
MainUri == "file:///w/Main.java"
LibUri == "file:///w/lib/C.java"
RelativeUri == "Main.java"
IndexUris == {MainUri, LibUri}
Uris == IndexUris \cup {RelativeUri}

Err == "Err"
UrlParse(uri) == IF uri = RelativeUri THEN Err ELSE uri

FilesFor(uri) == IF uri = LibUri THEN LibFiles ELSE IndexFiles

(***************************************************************************)
(* Indexer::update_file, the part that assembles the records.              *)
(***************************************************************************)
(* The package capture is a scoped_identifier: a one-segment package       *)
(* declaration is not captured.                                            *)
package_capture(f) == IF Len(f.pkg) >= 2 THEN f.pkg ELSE None

fqcn_of(package_name, text) ==
    IF package_name # None THEN package_name \o <<text>> ELSE <<text>>

(* Ranges: the declaration's place in the file.  mem = 0 is the class      *)
(* declaration itself (node_range of the name's parent).                   *)
NodeRange(c, m) == [cls |-> c, mem |-> m]

(* The facts of a member that lang/java.rs reads from its records          *)
(* (is_field, is_varargs, param_count, param_types, field_type): the       *)
(* IndexedMember of state.rs has no such fields, they follow the data      *)
(* model of the specification: from the parameters of a method, one type   *)
(* for each parameter, the variadic one included; from the declared type   *)
(* of a field.                                                             *)
member_facts(decl) ==
    [is_field    |-> decl.is_field,
     is_varargs  |-> decl.varargs,
     param_count |-> Len(decl.params),
     param_types |-> [k \in 1..Len(decl.params) |-> parse_java_type(decl.params[k])],
     field_type  |-> IF decl.is_field THEN parse_java_type(decl.type) ELSE Unknown]

collect_members(f, i, fqcn, url) ==
    [j \in 1..Len(f.classes[i].members) |->
        [name        |-> f.classes[i].members[j].name,
         fqmn        |-> fqcn \o <<f.classes[i].members[j].name>>,
         uri         |-> url,
         range       |-> NodeRange(i, j),
         is_field    |-> member_facts(f.classes[i].members[j]).is_field,
         is_varargs  |-> member_facts(f.classes[i].members[j]).is_varargs,
         param_count |-> member_facts(f.classes[i].members[j]).param_count,
         param_types |-> member_facts(f.classes[i].members[j]).param_types,
         field_type  |-> member_facts(f.classes[i].members[j]).field_type]]

indexed_classes(f, url) ==
    [i \in 1..Len(f.classes) |->
        [short_name |-> f.classes[i].name,
         fqcn       |-> fqcn_of(package_capture(f), f.classes[i].name),
         uri        |-> url,
         range      |-> NodeRange(i, 0)]]

indexed_members(f, url) ==
    Flatten([i \in 1..Len(f.classes) |->
        collect_members(f, i, fqcn_of(package_capture(f), f.classes[i].name), url)])

(* The four arguments update_file hands to upsert_file. *)
IndexerOutput(f, url) ==
    [package_name |-> package_capture(f),
     imports      |-> f.imports,
     classes      |-> indexed_classes(f, url),
     members      |-> indexed_members(f, url)]

(***************************************************************************)
(* GlobalIndex.                                                            *)
(***************************************************************************)
Vacant == [vacant |-> TRUE]

(* A mutant of upsert_file: the Occupied branch keeps the old class and    *)
(* member records and appends the new ones.                                *)
upsert_file_append(h, uri, args) ==
    IF h[uri] # Vacant
    THEN [h EXCEPT ![uri] = [package_name |-> args.package_name,
                             imports      |-> args.imports,
                             classes      |-> h[uri].classes \o args.classes,
                             members      |-> h[uri].members \o args.members]]
    ELSE [h EXCEPT ![uri] = args]

(* upsert_file: under the storage lock, Occupied sets the four inputs of   *)
(* the handle, Vacant inserts a new FileIndex.                             *)
upsert_file(h, uri, args) ==
    IF h[uri] # Vacant
    THEN [h EXCEPT ![uri] = [package_name |-> args.package_name,
                             imports      |-> args.imports,
                             classes      |-> args.classes,
                             members      |-> args.members]]
    ELSE [h EXCEPT ![uri] = args]

Occupied(h) == {u \in DOMAIN h : h[u] # Vacant}

(* The orders in which DashMap::iter may visit the entries. *)
IterOrders(h) == Perms(Occupied(h))

file_info(h, uri) ==
    IF h[uri] = Vacant THEN NoInfo
    ELSE [package_name    |-> h[uri].package_name,
          imports         |-> h[uri].imports,
          defined_classes |-> [i \in 1..Len(h[uri].classes) |->
                                   h[uri].classes[i].short_name]]

ClassLocation(class) == [fqcn |-> class.fqcn, uri |-> class.uri, range |-> class.range]
MemberLocation(member) ==
    [fqmn |-> member.fqmn, uri |-> member.uri, range |-> member.range,
     is_field |-> member.is_field, is_varargs |-> member.is_varargs,
     param_count |-> member.param_count, param_types |-> member.param_types,
     field_type |-> member.field_type]

entry_classes(h, k, short_name) ==
    LET hits == SelectSeq(h[k].classes, LAMBDA class : class.short_name = short_name)
    IN  [i \in 1..Len(hits) |-> ClassLocation(hits[i])]

entry_members(h, k, name) ==
    LET hits == SelectSeq(h[k].members, LAMBDA member : member.name = name)
    IN  [i \in 1..Len(hits) |-> MemberLocation(hits[i])]

classes_by_short_name(h, ord, short_name) ==
    Flatten([i \in 1..Len(ord) |-> entry_classes(h, ord[i], short_name)])

members_by_name(h, ord, name) ==
    Flatten([i \in 1..Len(ord) |-> entry_members(h, ord[i], name)])

(***************************************************************************)
(* The index specification: calls of upsert_file and of update_file.       *)
(***************************************************************************)
NoCall == [nocall |-> TRUE]

NoArgs == [noargs |-> TRUE]
NoQuery == [noquery |-> TRUE]

(* Nobody is inside the index. *)
ConcIdle ==
    /\ storage = "free"
    /\ wpc = "idle" /\ wargs = NoArgs
    /\ rpc = "idle" /\ rq = NoQuery /\ racc = <<>>
    /\ stable = <<>> /\ seen = {}

NoDoc == [nodoc |-> TRUE]
NoPrev == [noprev |-> TRUE]
NoGoto == [nogoto |-> TRUE]
NoScore == [noscore |-> TRUE]
NoComp == [nocomp |-> TRUE]
LockIdle ==
    /\ tasks = <<>> /\ shards = <<>> /\ shardOf = <<>>
    /\ parser = "none" /\ opened = {}
CallIdle == scored = NoScore /\ comp = NoComp /\ LockIdle
DocIdle ==
    /\ documents = <<>> /\ disk = <<>>
    /\ ipc = "none" /\ dpc = "idle"
    /\ pending = <<>> /\ prev = NoPrev
    /\ crashed = FALSE
    /\ gdoc = NoDoc /\ gres = NoGoto
    /\ CallIdle

IndexInit ==
    /\ handles = [u \in IndexUris |-> Vacant]
    /\ lastCall = [u \in IndexUris |-> NoCall]
    /\ calls = [u \in IndexUris |-> 0]
    /\ ConcIdle
    /\ DocIdle

Bump(n) == IF n < MaxCalls THEN n + 1 ELSE n

DoUpsert(uri, args) ==
    /\ handles' = upsert_file(handles, uri, args)
    /\ lastCall' = [lastCall EXCEPT ![uri] = args]
    /\ calls' = [calls EXCEPT ![uri] = Bump(calls[uri])]
    /\ UNCHANGED idxRest

(* GlobalIndex::upsert_file called with record sets of any file. *)
UpsertFile ==
    \E uri \in IndexUris : \E f \in FilesFor(uri) :
        DoUpsert(uri, IndexerOutput(f, uri))

(* Indexer::update_file(index, uri, tree, rope). *)
UpdateFile ==
    \E uri \in Uris : \E f \in FilesFor(uri) :
        IF UrlParse(uri) = Err
        THEN UNCHANGED vars
        ELSE DoUpsert(uri, IndexerOutput(f, UrlParse(uri)))

Next == UpsertFile \/ UpdateFile

Spec == IndexInit /\ [][Next]_vars

(***************************************************************************)
(* C1  After a second upsert_file for a uri u, every lookup returns for u  *)
(* exactly the package, imports, classes and members of the latest call:   *)
(* no record of an earlier call remains and none appears twice.            *)
(***************************************************************************)
RecordsOf(locs, u) == SelectSeq(locs, LAMBDA loc : loc.uri = u)

LatestOnly(u) ==
    \A ord \in IterOrders(handles) :
        /\ file_info(handles, u) =
              [package_name    |-> lastCall[u].package_name,
               imports         |-> lastCall[u].imports,
               defined_classes |-> [i \in 1..Len(lastCall[u].classes) |->
                                        lastCall[u].classes[i].short_name]]
        /\ \A n \in ClassNames :
              RecordsOf(classes_by_short_name(handles, ord, n), u) =
                  LET hits == SelectSeq(lastCall[u].classes,
                                        LAMBDA class : class.short_name = n)
                  IN  [i \in 1..Len(hits) |-> ClassLocation(hits[i])]
        /\ \A n \in MemberNames :
              RecordsOf(members_by_name(handles, ord, n), u) =
                  LET hits == SelectSeq(lastCall[u].members,
                                        LAMBDA member : member.name = n)
                  IN  [i \in 1..Len(hits) |-> MemberLocation(hits[i])]

C1_UpsertReplaces == \A u \in IndexUris : calls[u] >= 2 => LatestOnly(u)

(* A second upsert_file of MainUri replaced two classes by one other. *)
C1_Witness ==
    /\ calls[MainUri] >= 2
    /\ handles[LibUri] # Vacant
    /\ Len(handles[MainUri].classes) = 1
    /\ handles[MainUri].classes[1].short_name = "D"

(***************************************************************************)
(* C6  After Indexer::update_file, for every class-like declaration c      *)
(* captured in a file, classes_by_short_name(c.short_name) contains        *)
(* exactly one record whose fqcn and uri equal those of c.                 *)
(***************************************************************************)
Matching(locs, c) ==
    {j \in 1..Len(locs) : locs[j].fqcn = c.fqcn /\ locs[j].uri = c.uri}

C6_ExactlyOneRecord ==
    \A u \in Occupied(handles) : \A ord \in IterOrders(handles) :
        \A i \in 1..Len(handles[u].classes) :
            Cardinality(Matching(
                classes_by_short_name(handles, ord, handles[u].classes[i].short_name),
                handles[u].classes[i])) = 1

(***************************************************************************)
(* The index under concurrency: one thread inside upsert_file and one      *)
(* inside a lookup, each step one access to the salsa storage.             *)
(***************************************************************************)
ConcFiles ==
    {[pkg |-> <<>>, imports |-> <<>>, classes |-> <<ClassDecl("C", 0, <<>>)>>],
     [pkg |-> <<"org", "x">>, imports |-> <<<<"org", "x", "C">>>>,
      classes |-> <<ClassDecl("D", 0, <<Method("m")>>)>>],
     [pkg |-> <<"org", "x">>, imports |-> <<>>,
      classes |-> <<ClassDecl("C", 0, <<Field("m")>>), ClassDecl("D", 1, <<>>)>>]}

(* A mutant of StorageAfterSetter: the guard is dropped after every setter. *)
StorageAfterSetterDropped == "free"

(* `db`, the MutexGuard of upsert_file, lives to the end of the function:  *)
(* after a setter the writer still holds the storage.                      *)
StorageAfterSetter == "writer"

ConcInit ==
    /\ handles = [u \in IndexUris |-> Vacant]
    /\ lastCall = [u \in IndexUris |-> NoCall]
    /\ calls = [u \in IndexUris |-> 0]
    /\ storage = "free"
    /\ wpc = "idle" /\ wargs = NoArgs
    /\ rpc = "idle" /\ rq = NoQuery /\ racc = <<>>
    /\ stable = [u \in IndexUris |-> Vacant]
    /\ seen = {}
    /\ DocIdle

(* Indexer::update_file calls upsert_file once, with the whole record set. *)
WCall ==
    /\ wpc = "idle"
    /\ \E uri \in IndexUris : \E f \in ConcFiles :
          wargs' = [uri |-> uri, args |-> IndexerOutput(f, UrlParse(uri))]
    /\ wpc' = "lock"
    /\ UNCHANGED <<idxVars, storage, rpc, rq, racc, stable, seen, concRest>>

(* self.storage.lock() *)
WLock ==
    /\ wpc = "lock" /\ storage = "free"
    /\ storage' = "writer"
    /\ wpc' = "entry"
    /\ UNCHANGED <<idxVars, wargs, rpc, rq, racc, stable, seen, concRest>>

(* self.handles.entry(uri): Vacant inserts the new FileIndex. *)
WEntry ==
    /\ wpc = "entry" /\ storage = "writer"
    /\ IF handles[wargs.uri] = Vacant
       THEN /\ handles' = [handles EXCEPT ![wargs.uri] = wargs.args]
            /\ wpc' = "return"
       ELSE /\ handles' = handles
            /\ wpc' = "set_package_name"
    /\ UNCHANGED <<lastCall, calls, storage, wargs, rpc, rq, racc, stable, seen, concRest>>

(* One setter of the Occupied branch; it runs with the storage held. *)
WSet(field, at, then) ==
    /\ wpc = at /\ storage \in {"writer", "free"}
    /\ handles' = [handles EXCEPT ![wargs.uri][field] = wargs.args[field]]
    /\ storage' = IF then = "return" THEN "writer" ELSE StorageAfterSetter
    /\ wpc' = then
    /\ UNCHANGED <<lastCall, calls, wargs, rpc, rq, racc, stable, seen, concRest>>

WSetPackageName == WSet("package_name", "set_package_name", "set_imports")
WSetImports == WSet("imports", "set_imports", "set_classes")
WSetClasses == WSet("classes", "set_classes", "set_members")
WSetMembers == WSet("members", "set_members", "return")

(* upsert_file returns: the guards are dropped. *)
WReturn ==
    /\ wpc = "return"
    /\ storage' = "free"
    /\ wpc' = "idle" /\ wargs' = NoArgs
    /\ stable' = handles
    /\ seen' = IF rpc \in {"idle", "lock", "done"} THEN seen ELSE seen \cup {handles}
    /\ UNCHANGED <<idxVars, rpc, rq, racc, concRest>>

LookupNames == ClassNames \cup MemberNames
Lookups ==
    [kind : {"file_info"}, uri : IndexUris]
        \cup [kind : {"classes_by_short_name"}, name : ClassNames]
        \cup [kind : {"members_by_name"}, name : MemberNames]

RCall ==
    /\ rpc = "idle"
    /\ \E q \in Lookups : rq' = q
    /\ rpc' = "lock"
    /\ racc' = <<>>
    /\ seen' = {}
    /\ UNCHANGED <<idxVars, storage, wpc, wargs, stable, concRest>>

(* self.storage.lock(), then handles.get(uri) or handles.iter(). *)
RLock ==
    /\ rpc = "lock" /\ storage = "free"
    /\ storage' = "reader"
    /\ seen' = {stable}
    /\ IF rq.kind = "file_info"
       THEN /\ rpc' = IF handles[rq.uri] = Vacant THEN "return" ELSE "imports"
            /\ racc' = IF handles[rq.uri] = Vacant THEN NoInfo ELSE <<>>
            /\ rq' = rq
       ELSE /\ \E ord \in IterOrders(handles) :
                  rq' = [kind |-> rq.kind, name |-> rq.name, ord |-> ord]
            /\ rpc' = "iter"
            /\ racc' = <<>>
    /\ UNCHANGED <<idxVars, wpc, wargs, stable, concRest>>

(* file_info reads imports, classes and package_name of the handle. *)
RImports ==
    /\ rpc = "imports"
    /\ racc' = [imports |-> handles[rq.uri].imports]
    /\ rpc' = "classes"
    /\ UNCHANGED <<idxVars, storage, wpc, wargs, rq, stable, seen, concRest>>

RClasses ==
    /\ rpc = "classes"
    /\ racc' = [imports |-> racc.imports,
                defined_classes |-> [i \in 1..Len(handles[rq.uri].classes) |->
                                         handles[rq.uri].classes[i].short_name]]
    /\ rpc' = "package_name"
    /\ UNCHANGED <<idxVars, storage, wpc, wargs, rq, stable, seen, concRest>>

RPackageName ==
    /\ rpc = "package_name"
    /\ racc' = [package_name    |-> handles[rq.uri].package_name,
                imports         |-> racc.imports,
                defined_classes |-> racc.defined_classes]
    /\ rpc' = "return"
    /\ UNCHANGED <<idxVars, storage, wpc, wargs, rq, stable, seen, concRest>>

(* classes_by_short_name / members_by_name visit one entry. *)
RIter ==
    /\ rpc = "iter"
    /\ IF rq.ord = <<>>
       THEN /\ rpc' = "return"
            /\ UNCHANGED <<rq, racc>>
       ELSE /\ racc' = racc \o
                  (IF rq.kind = "classes_by_short_name"
                   THEN entry_classes(handles, Head(rq.ord), rq.name)
                   ELSE entry_members(handles, Head(rq.ord), rq.name))
            /\ rq' = [rq EXCEPT !.ord = Tail(rq.ord)]
            /\ rpc' = "iter"
    /\ UNCHANGED <<idxVars, storage, wpc, wargs, stable, seen, concRest>>

(* The lookup returns racc; its guard is dropped. *)
RReturn ==
    /\ rpc = "return"
    /\ storage' = "free"
    /\ rpc' = "done"
    /\ UNCHANGED <<idxVars, wpc, wargs, rq, racc, stable, seen, concRest>>

RDone ==
    /\ rpc = "done"
    /\ rpc' = "idle" /\ rq' = NoQuery /\ racc' = <<>> /\ seen' = {}
    /\ UNCHANGED <<idxVars, storage, wpc, wargs, stable, concRest>>

ConcNext ==
    \/ WCall \/ WLock \/ WEntry
    \/ WSetPackageName \/ WSetImports \/ WSetClasses \/ WSetMembers
    \/ WReturn
    \/ RCall \/ RLock \/ RImports \/ RClasses \/ RPackageName \/ RIter
    \/ RReturn \/ RDone

SpecConc == ConcInit /\ [][ConcNext]_vars

(***************************************************************************)
(* C2  A lookup that runs concurrently with upsert_file(u, ...) sees for u *)
(* either the whole record set from before the upsert or the whole set     *)
(* from after it, never a mixture.                                         *)
(***************************************************************************)
EntryClassesOrNone(h, u, n) == IF h[u] = Vacant THEN <<>> ELSE entry_classes(h, u, n)
EntryMembersOrNone(h, u, n) == IF h[u] = Vacant THEN <<>> ELSE entry_members(h, u, n)

SeesWholeSet(u) ==
    \E h \in seen :
        CASE rq.kind = "file_info" ->
                u = rq.uri => racc = file_info(h, u)
          [] rq.kind = "classes_by_short_name" ->
                RecordsOf(racc, u) = EntryClassesOrNone(h, u, rq.name)
          [] rq.kind = "members_by_name" ->
                RecordsOf(racc, u) = EntryMembersOrNone(h, u, rq.name)

C2_NoTornRead == rpc = "done" => \A u \in IndexUris : SeesWholeSet(u)

(* file_info returned a record of a file while the writer, called to       *)
(* replace that file's record set, waits for the storage.                  *)
C2_Witness ==
    /\ rpc = "done" /\ rq.kind = "file_info" /\ racc # NoInfo
    /\ wpc = "lock" /\ wargs.uri = rq.uri
    /\ handles[rq.uri] # wargs.args

(***************************************************************************)
(* Documents.  A rope is a sequence of characters: "C" and "D" each stand  *)
(* for a class declaration of that name, "U" for a comment character that  *)
(* takes two bytes in UTF-8, "\n" for a line break.  A tree is the set of  *)
(* its nodes, each with its kind and its byte range.                       *)
(***************************************************************************)
MaxLen == 4        \* characters in a rope
MaxChanges == 2    \* content changes in one did_change

ByteLen(c) == IF c = "U" THEN 2 ELSE 1
RECURSIVE len_bytes(_)
len_bytes(t) == IF t = <<>> THEN 0 ELSE ByteLen(Head(t)) + len_bytes(Tail(t))
len_chars(t) == Len(t)
Breaks(t, n) == Cardinality({i \in 1..n : t[i] = "\n"})
len_lines(t) == 1 + Breaks(t, Len(t))
line_to_char(t, line) ==
    IF line = 0 THEN 0
    ELSE IF line >= len_lines(t) THEN Len(t)
    ELSE CHOOSE k \in 1..Len(t) : t[k] = "\n" /\ Breaks(t, k) = line
char_to_byte(t, ci) == len_bytes(SubSeq(t, 1, ci))
byte_to_char(t, b) ==
    CHOOSE k \in 0..Len(t) :
        /\ char_to_byte(t, k) <= b
        /\ k = Len(t) \/ char_to_byte(t, k + 1) > b
char_to_line(t, ci) == Breaks(t, ci)
rope_remove(t, a, b) == SubSeq(t, 1, a) \o SubSeq(t, b + 1, Len(t))
rope_insert(t, a, str) == SubSeq(t, 1, a) \o str \o SubSeq(t, a + 1, Len(t))

KindOf(c) == IF c = "U" THEN "line_comment" ELSE "class_declaration"
TreeNode(t, i) ==
    [kind       |-> KindOf(t[i]),
     start_byte |-> char_to_byte(t, i - 1),
     end_byte   |-> char_to_byte(t, i)]

(* parser.parse_with_options(.., None, None): the parse from scratch. *)
Parse(t) == {TreeNode(t, i) : i \in {j \in 1..Len(t) : t[j] # "\n"}}

Overlaps(n, from, to) == n.start_byte < to /\ n.end_byte > from

(* Tree::edit: the nodes inside the edited bytes are marked changed (they  *)
(* will not be reused), the nodes behind them move by the difference.      *)
tree_edit(tree, edit) ==
    {n \in tree : n.end_byte <= edit.start_byte /\ n.start_byte < edit.old_end_byte}
        \cup
    {[kind       |-> n.kind,
      start_byte |-> n.start_byte + edit.new_end_byte - edit.old_end_byte,
      end_byte   |-> n.end_byte + edit.new_end_byte - edit.old_end_byte] :
        n \in {m \in tree : m.start_byte >= edit.old_end_byte}}

(* parser.parse_with_options(.., Some(&old), None): the unchanged nodes of *)
(* the old tree are reused where they stand, the rest is parsed anew.      *)
parse_with_old_tree(t, old) ==
    old \cup {n \in Parse(t) :
                 \A r \in old : ~Overlaps(n, r.start_byte, r.end_byte)}

Document(text, tree) == [text |-> text, tree |-> tree]

RECURSIVE SortNodes(_)
SortNodes(S) ==
    IF S = {} THEN <<>>
    ELSE LET first == CHOOSE n \in S : \A o \in S : n.start_byte <= o.start_byte
         IN  <<first>> \o SortNodes(S \ {first})

(* The text of a node: rope.byte_slice(start_byte..end_byte). *)
get_node_text(t, n) ==
    LET inside == {i \in 1..Len(t) : /\ char_to_byte(t, i - 1) >= n.start_byte
                                     /\ char_to_byte(t, i) <= n.end_byte}
    IN  IF Cardinality(inside) = 1 THEN t[CHOOSE i \in inside : TRUE] ELSE "?"

(* What the query of the indexer captures in a document. *)
CapturedFile(doc) ==
    LET decls == SelectSeq(SortNodes(doc.tree),
                           LAMBDA n : n.kind = "class_declaration")
    IN  [pkg     |-> <<>>,
         imports |-> <<>>,
         classes |-> [i \in 1..Len(decls) |->
                         ClassDecl(get_node_text(doc.text, decls[i]), 0, <<>>)]]

DocIndex(doc, uri) == IndexerOutput(CapturedFile(doc), UrlParse(uri))

NotesUri == "file:///w/notes.txt"
DocUris == {MainUri, NotesUri}
get_ext(uri) == IF uri = NotesUri THEN "txt" ELSE "java"
parsers == {"java"}

NoRange == [none |-> TRUE]
Position(l, c) == [line |-> l, character |-> c]
Full(t) == [range |-> NoRange, text |-> t]
Ranged(sl, sc, el, ec, t) ==
    [range |-> [start |-> Position(sl, sc), end |-> Position(el, ec)], text |-> t]

OpenTexts == {<<>>, <<"U", "C">>, <<"C", "\n", "D">>}
DiskTexts == {<<"C">>, <<"D", "\n", "C">>}
ContentChanges ==
    {Full(<<>>), Full(<<"U", "\n", "D">>),
     Ranged(0, 0, 0, 0, <<"C">>),      \* insert at the start
     Ranged(0, 1, 0, 1, <<"U">>),      \* insert behind the first character
     Ranged(0, 0, 0, 1, <<>>),         \* delete the first character
     Ranged(1, 0, 1, 0, <<"D">>),      \* insert at the start of line 1
     Ranged(0, 1, 1, 0, <<"\n">>),     \* replace up to the start of line 1
     Ranged(0, 0, 2, 0, <<>>),         \* delete up to the start of line 2
     Ranged(0, 1, 0, 0, <<>>)}         \* start behind end
ChangeEvents == SeqsUpTo(ContentChanges, MaxChanges) \ {<<>>}
RECURSIVE Inserted(_)
Inserted(cs) == IF cs = <<>> THEN 0 ELSE Len(Head(cs).text) + Inserted(Tail(cs))

IdleDc == [at |-> "idle"]

DocInit ==
    /\ handles = [u \in IndexUris |-> Vacant]
    /\ lastCall = [u \in IndexUris |-> NoCall]
    /\ calls = [u \in IndexUris |-> 0]
    /\ ConcIdle
    /\ documents = [u \in DocUris |-> NoDoc]
    /\ disk = <<>>
    /\ ipc = "done"
    /\ dpc = IdleDc
    /\ pending = <<>> /\ prev = NoPrev
    /\ crashed = FALSE
    /\ gdoc = NoDoc /\ gres = NoGoto
    /\ CallIdle

Running == ~crashed /\ dpc = IdleDc

(* The client sends `initialized` before any document notification. *)
Serving == Running /\ ipc # "none"

(* did_open: parse the text from scratch, store the document, index it. *)
DidOpen ==
    /\ Serving
    /\ \E uri \in DocUris : \E text \in OpenTexts :
          IF get_ext(uri) \notin parsers
          THEN UNCHANGED <<handles, documents>>
          ELSE LET doc == Document(text, Parse(text))
               IN  /\ documents' = [documents EXCEPT ![uri] = doc]
                   /\ handles' = upsert_file(handles, uri, DocIndex(doc, uri))
    /\ prev' = NoPrev
    /\ UNCHANGED <<disk, ipc, dpc, pending, crashed, docRest>>

(* did_change up to the loop: documents.get_mut(&uri), the parser lock. *)
DidChangeBegin ==
    /\ Serving
    /\ \E uri \in DocUris : \E changes \in ChangeEvents :
          IF documents[uri] = NoDoc \/ get_ext(uri) \notin parsers
          THEN UNCHANGED <<dpc, pending>>
          ELSE /\ Len(documents[uri].text) + Inserted(changes) <= MaxLen
               /\ dpc' = [at |-> "loop", uri |-> uri]
               /\ pending' = changes
    /\ prev' = NoPrev
    /\ UNCHANGED <<handles, documents, disk, ipc, crashed, docRest>>

(* A mutant of OutOfLines: the comparison lets the line count itself pass. *)
OutOfLinesStrict(line, t) == line > len_lines(t)

(* The line check of a ranged change. *)
OutOfLines(line, t) == line >= len_lines(t)

(* A mutant of NewEndByte: the inserted text is measured in characters. *)
NewEndByteInChars(start_byte, text) == start_byte + Len(text)

(* start_byte + change.text.len(): str::len is the length in bytes. *)
NewEndByte(start_byte, text) == start_byte + len_bytes(text)

start_char_idx(t, range) == line_to_char(t, range.start.line) + range.start.character
end_char_idx(t, range) == line_to_char(t, range.end.line) + range.end.character

(* Rope::char_to_byte and Rope::remove panic on these. *)
Panics(t, range) ==
    \/ start_char_idx(t, range) > len_chars(t)
    \/ end_char_idx(t, range) > len_chars(t)
    \/ start_char_idx(t, range) > end_char_idx(t, range)

InputEdit(t, change) ==
    LET range == change.range
        start_byte == char_to_byte(t, start_char_idx(t, range))
        text == rope_insert(rope_remove(t, start_char_idx(t, range),
                                        end_char_idx(t, range)),
                            start_char_idx(t, range), change.text)
        new_end_byte == NewEndByte(start_byte, change.text)
        new_end_char_idx == byte_to_char(text, new_end_byte)
        new_end_line == char_to_line(text, new_end_char_idx)
    IN  [start_byte       |-> start_byte,
         old_end_byte     |-> char_to_byte(t, end_char_idx(t, range)),
         new_end_byte     |-> new_end_byte,
         start_position   |-> <<range.start.line, range.start.character>>,
         old_end_position |-> <<range.end.line, range.end.character>>,
         new_end_position |-> <<new_end_line,
                                 new_end_char_idx - line_to_char(text, new_end_line)>>]

(* One turn of `for change in params.content_changes`. *)
DidChangeStep ==
    /\ ~crashed /\ dpc # IdleDc /\ pending # <<>>
    /\ LET uri == dpc.uri
           doc == documents[uri]
           change == Head(pending)
           range == change.range
           skipped == IF prev = NoPrev THEN 0 ELSE prev.skipped
           skips == /\ range # NoRange
                    /\ \/ OutOfLines(range.start.line, doc.text)
                       \/ OutOfLines(range.end.line, doc.text)
       IN  /\ prev' = [uri |-> uri, text |-> doc.text, pending |-> pending,
                       skipped |-> IF skips THEN skipped + 1 ELSE skipped]
           /\ IF range = NoRange
              THEN /\ documents' = [documents EXCEPT
                         ![uri] = Document(change.text, Parse(change.text))]
                   /\ pending' = Tail(pending)
                   /\ crashed' = FALSE
              ELSE IF skips
              THEN /\ pending' = Tail(pending)
                   /\ UNCHANGED <<documents, crashed>>
              ELSE IF Panics(doc.text, range)
              THEN /\ crashed' = TRUE
                   /\ UNCHANGED <<documents, pending>>
              ELSE /\ documents' = [documents EXCEPT ![uri] =
                         Document(rope_insert(rope_remove(doc.text,
                                                  start_char_idx(doc.text, range),
                                                  end_char_idx(doc.text, range)),
                                              start_char_idx(doc.text, range),
                                              change.text),
                                  tree_edit(doc.tree, InputEdit(doc.text, change)))]
                   /\ pending' = Tail(pending)
                   /\ crashed' = FALSE
    /\ UNCHANGED <<handles, disk, ipc, dpc, docRest>>

(* After the loop: one reparse with the edited tree, then the index. *)
DidChangeFinish ==
    /\ ~crashed /\ dpc # IdleDc /\ pending = <<>>
    /\ LET uri == dpc.uri
           doc == Document(documents[uri].text,
                           parse_with_old_tree(documents[uri].text, documents[uri].tree))
       IN  /\ documents' = [documents EXCEPT ![uri] = doc]
           /\ handles' = upsert_file(handles, uri, DocIndex(doc, uri))
    /\ dpc' = IdleDc
    /\ prev' = NoPrev
    /\ UNCHANGED <<disk, ipc, pending, crashed, docRest>>

(* initialized: the handler awaits the scan of the workspace root (or has  *)
(* no root and skips the indexing).                                        *)
Initialized ==
    /\ Running /\ ipc = "none"
    /\ \E root \in BOOLEAN : ipc' = IF root THEN "scan" ELSE "done"
    /\ UNCHANGED <<handles, documents, disk, dpc, pending, prev, crashed, docRest>>

RECURSIVE index_files(_, _)
index_files(h, paths) ==
    IF paths = <<>> THEN h
    ELSE index_files(
             upsert_file(h, Head(paths),
                         DocIndex(Document(disk[Head(paths)], Parse(disk[Head(paths)])),
                                  Head(paths))),
             Tail(paths))

(* index_workspace after the scan: index_single_file for every file found, *)
(* each read from the disk.  JAVA_HOME is not set: index_builtin_library   *)
(* returns at once.                                                        *)
IndexWorkspace ==
    /\ Running /\ ipc = "scan"
    /\ \E paths \in Perms(DOMAIN disk) : handles' = index_files(handles, paths)
    /\ ipc' = "done"
    /\ UNCHANGED <<documents, disk, dpc, pending, prev, crashed, docRest>>

DocNext == DidOpen \/ DidChangeBegin \/ DidChangeStep \/ DidChangeFinish

(* The documents of a server without a workspace root. *)
SpecDoc == DocInit /\ [][DocNext]_vars

BootInit ==
    /\ handles = [u \in IndexUris |-> Vacant]
    /\ lastCall = [u \in IndexUris |-> NoCall]
    /\ calls = [u \in IndexUris |-> 0]
    /\ ConcIdle
    /\ documents = [u \in DocUris |-> NoDoc]
    /\ disk \in [IndexUris -> DiskTexts]
    /\ ipc = "none"
    /\ dpc = IdleDc
    /\ pending = <<>> /\ prev = NoPrev
    /\ crashed = FALSE
    /\ gdoc = NoDoc /\ gres = NoGoto
    /\ CallIdle

BootNext == DocNext \/ Initialized \/ IndexWorkspace

(* The documents of a server that indexes its workspace root. *)
SpecBoot == BootInit /\ [][BootNext]_vars

LineOutOfRange(change, t) ==
    /\ change.range # NoRange
    /\ \/ change.range.start.line >= len_lines(t)
       \/ change.range.end.line >= len_lines(t)

C5_OutOfRangeSkipped ==
    (prev # NoPrev /\ LineOutOfRange(Head(prev.pending), prev.text)) =>
        /\ ~crashed
        /\ documents[prev.uri].text = prev.text
        /\ dpc # IdleDc => pending = Tail(prev.pending)

(* The first of two changes was skipped and the second one was applied. *)
C5_Witness ==
    /\ dpc # IdleDc /\ prev # NoPrev /\ pending = <<>>
    /\ Len(prev.pending) = 1
    /\ prev.skipped = 1
    /\ ~LineOutOfRange(Head(prev.pending), prev.text)
    /\ documents[prev.uri].text # prev.text

(***************************************************************************)
(* C3  Whenever a query can start (no handler is in its synchronous part), *)
(* the index entry of every open document is the output of the indexer for *)
(* the document as its last applied edit left it.                          *)
(***************************************************************************)
C3_IndexFollowsDocument ==
    Running =>
        \A u \in DocUris :
            documents[u] # NoDoc => handles[u] = DocIndex(documents[u], u)

(***************************************************************************)
(* The overload score.                                                     *)
(***************************************************************************)
(* A mutant of calculate_score: the Unknown arm is tried before the        *)
(* equality test.                                                          *)
calculate_score_unknown_first(arg_type, param_type) ==
    IF arg_type = Unknown THEN 1
    ELSE IF arg_type = param_type THEN 100
    ELSE CASE arg_type.tag = "Int" /\ param_type.tag \in {"Long", "Double"} -> 50
           [] arg_type.tag = "Int" /\ param_type.tag = "Float" -> 40
           [] arg_type.tag = "Long" /\ param_type.tag = "Float" -> 40
           [] arg_type.tag = "Long" /\ param_type.tag = "Double" -> 50
           [] arg_type.tag = "Float" /\ param_type.tag = "Double" -> 50
           [] arg_type.tag = "Class" /\ param_type.tag = "Class" -> 0
           [] OTHER -> 0 - 100

(* calculate_score: the arms of the match in their order. *)
calculate_score(arg_type, param_type) ==
    IF arg_type = param_type THEN 100
    ELSE CASE arg_type = Unknown -> 1
           [] arg_type.tag = "Int" /\ param_type.tag = "Long" -> 50
           [] arg_type.tag = "Int" /\ param_type.tag = "Float" -> 40
           [] arg_type.tag = "Int" /\ param_type.tag = "Double" -> 50
           [] arg_type.tag = "Long" /\ param_type.tag = "Float" -> 40
           [] arg_type.tag = "Long" /\ param_type.tag = "Double" -> 50
           [] arg_type.tag = "Float" /\ param_type.tag = "Double" -> 50
           [] arg_type.tag = "Double" /\ param_type.tag = "Float" -> 0 - 100
           [] arg_type.tag = "Double" /\ param_type.tag = "Int" -> 0 - 100
           [] arg_type.tag = "Class" /\ param_type.tag = "Class" ->
                  IF arg_type.name = param_type.name THEN 100 ELSE 0
           [] OTHER -> 0 - 100

(* calculate_score applied to a pair of types. *)
ScoreInit ==
    /\ handles = [u \in IndexUris |-> Vacant]
    /\ lastCall = [u \in IndexUris |-> NoCall]
    /\ calls = [u \in IndexUris |-> 0]
    /\ ConcIdle
    /\ DocIdle

Score ==
    /\ scored = NoScore
    /\ \E arg_type \in InferredTypes : \E param_type \in InferredTypes :
          scored' = [arg |-> arg_type, param |-> param_type,
                     score |-> calculate_score(arg_type, param_type)]
    /\ UNCHANGED <<idxVars, concVars, docVars, gotoVars, comp, lockVars>>

ScoreReturn ==
    /\ scored # NoScore
    /\ scored' = NoScore
    /\ UNCHANGED <<idxVars, concVars, docVars, gotoVars, comp, lockVars>>

ScoreNext == Score \/ ScoreReturn

SpecScore == ScoreInit /\ [][ScoreNext]_vars

(***************************************************************************)
(* The resolver: JavaService::goto_definition over the document of         *)
(* MainUri.  A document is a file and the body of one method of one of its *)
(* classes: the parameters, the local variable declarations of the body    *)
(* block and the place of the reference among them.  The identifier under  *)
(* the cursor is a `use`.                                                  *)
(***************************************************************************)
AltUri == "file:///w/alt/C.java"
StdUri == "jrsls-std:///java/lang/C.java"
GotoUris == {MainUri, LibUri, AltUri, StdUri}
scheme(uri) == IF uri = StdUri THEN "jrsls-std" ELSE "file"

LocalDecl(n, t) == [name |-> n, type |-> t]
Body(c, ps, ls, at) == [cls |-> c, params |-> ps, locals |-> ls, use_at |-> at]
Bodies ==
    {Body(1, <<>>, <<>>, 0),
     Body(1, <<"C">>, <<>>, 0),                     \* a parameter named C
     Body(1, <<>>, <<LocalDecl("C", "int")>>, 1),   \* a local named C, before
     Body(1, <<>>, <<LocalDecl("C", "int")>>, 0),   \* a local named C, behind
     Body(1, <<>>, <<LocalDecl("x", "C")>>, 1)}     \* C x; before

(* The reference stands in a method of class D, the first of the file. *)
GotoClassLists ==
    {<<ClassDecl("D", 0, <<Method("m")>>)>>,
     <<ClassDecl("D", 0, <<>>), ClassDecl("C", 0, <<Method("m")>>)>>,
     <<ClassDecl("D", 0, <<Field("m"), Method("m")>>), ClassDecl("C", 1, <<Field("m")>>)>>}
(* The imports of the document: none, org.x.C, or java.lang.C. *)
GotoImportLists == ImportLists \cup {<<<<"java", "lang", "C">>>>}
GotoDocs ==
    [file : [pkg : Packages, imports : GotoImportLists, classes : GotoClassLists],
     body : Bodies]
StdFiles ==
    {[pkg |-> <<"java", "lang">>, imports |-> <<>>,
      classes |-> <<ClassDecl("C", 0, <<Method("m")>>)>>]}
AltFiles == {f \in LibFiles : f.pkg # <<>>}
GotoFilesFor(uri) ==
    IF uri = StdUri THEN StdFiles ELSE IF uri = AltUri THEN AltFiles ELSE LibFiles

(* The identifier under the cursor: its text and kind, the kind of its     *)
(* parent, the segments of the parent's object, the argument expressions   *)
(* of the parent when it is a method_invocation, whether the next          *)
(* character that is not white space is `(`, and whether some ancestor is  *)
(* a method_invocation.                                                    *)
Use(n, k, p, o, a, paren) ==
    [name |-> n, kind |-> k, parent |-> p, object |-> o, args |-> a,
     followed_by_paren |-> paren, in_call |-> p = "method_invocation"]
InCall(use) == [use EXCEPT !.in_call = TRUE]
Arg(k, t) == [kind |-> k, text |-> t]
Uses ==
    {Use("C", "type_identifier", "object_creation_expression", None, <<>>, TRUE),  \* new C()
     Use("C", "identifier", "field_access", <<"C">>, <<>>, FALSE),      \* C in C.m
     InCall(Use("C", "identifier", "argument_list", None, <<>>, FALSE)),  \* f(C)
     Use("m", "identifier", "method_invocation", None, <<>>, TRUE),     \* m()
     Use("m", "identifier", "method_invocation", <<"C">>, <<>>, TRUE),  \* C.m()
     Use("m", "identifier", "field_access", <<"C">>, <<>>, FALSE),      \* C.m
     Use("m", "identifier", "method_invocation", <<"x">>, <<>>, TRUE)}  \* x.m()

NoLoc == [none |-> TRUE]
Location(uri, range) == [uri |-> uri, range |-> range]

(* Option::or_else, `if let Some(..) = .. { return .. }`, and Some(..) of a *)
(* range or of a record's place.                                           *)
OrElse(a, b) == IF a # None THEN a ELSE b
OrLoc(a, b) == IF a # NoLoc THEN a ELSE b
LocationIn(uri, range) == IF range = None THEN NoLoc ELSE Location(uri, range)
LocationOf(rec) == IF rec = NoLoc THEN NoLoc ELSE Location(rec.uri, rec.range)
FqcnOf(rec) == IF rec = NoLoc THEN None ELSE rec.fqcn
ParamRange(k) == [param |-> k]
LocalRange(k) == [local |-> k]

FirstIdx(s, Test(_)) ==
    IF \E i \in 1..Len(s) : Test(s[i])
    THEN CHOOSE i \in 1..Len(s) : Test(s[i]) /\ \A j \in 1..(i - 1) : ~Test(s[j])
    ELSE 0
starts_with(s, prefix) ==
    Len(s) > Len(prefix) /\ SubSeq(s, 1, Len(prefix)) = prefix
ends_with(s, name) == Len(s) >= 2 /\ s[Len(s)] = name

(* find_local_variable: the block's declarations that start before the    *)
(* reference, then the parameters of the method.                           *)
find_local_variable(body, name) ==
    LET l == FirstIdx(SubSeq(body.locals, 1, body.use_at), LAMBDA d : d.name = name)
        p == FirstIdx(body.params, LAMBDA n : n = name)
    IN  IF l # 0 THEN LocalRange(l)
        ELSE IF p # 0 THEN ParamRange(p)
        ELSE None

(* search_scope on the body of the method: every declaration of the block. *)
search_scope(body, name) ==
    LET l == FirstIdx(body.locals, LAMBDA d : d.name = name)
    IN  IF l # 0 THEN LocalRange(l) ELSE None

prefer_field_first(use) == use.parent # "method_invocation"

get_call_args(use) == IF use.parent = "method_invocation" THEN use.args ELSE <<>>

(* TypeSolver::infer for the argument expressions of this model, which are *)
(* literals: an integer literal is Int whatever its suffix, a floating     *)
(* point literal is Float with the suffix f or F and Double without, and   *)
(* an expression of any other kind is Unknown.                             *)
infer(arg) ==
    CASE arg.kind = "decimal_integer_literal" -> Prim("Int")
      [] arg.kind = "decimal_floating_point_literal" ->
             IF arg.text \in {"1f", "1F"} THEN Prim("Float") ELSE Prim("Double")
      [] arg.kind = "string_literal" -> Prim("String")
      [] arg.kind \in {"true", "false"} -> Prim("Boolean")
      [] OTHER -> Unknown

RECURSIVE SumSeq(_)
SumSeq(ns) == IF ns = <<>> THEN 0 ELSE Head(ns) + SumSeq(Tail(ns))

(* The arity test of search_class_member on a method_declaration. *)
accepts_arity(decl, call_args) ==
    IF decl.varargs THEN Len(call_args) >= Len(decl.params) - 1
    ELSE Len(call_args) = Len(decl.params)

(* The loop over the arguments in search_class_member.  The parameter of   *)
(* argument k is parameter k, or the spread_parameter for an argument      *)
(* beyond the fixed parameters.  A formal_parameter has a field `type`; a  *)
(* spread_parameter of the grammar has none, which is a mismatch.  The sum *)
(* of the scores of an accepted method is not negative: Rejected stands    *)
(* for `continue`.                                                         *)
Rejected == 0 - 1
def_param_scores(decl, call_args) ==
    [k \in 1..Len(call_args) |->
        IF decl.varargs /\ k > Len(decl.params) - 1 THEN Rejected
        ELSE calculate_score(infer(call_args[k]), parse_java_type(decl.params[k]))]
accept_scores(scores) ==
    IF \E k \in 1..Len(scores) : scores[k] < 0 THEN Rejected ELSE SumSeq(scores)
current_score(decl, call_args) ==
    IF accepts_arity(decl, call_args)
    THEN accept_scores(def_param_scores(decl, call_args))
    ELSE Rejected

(* search_class_member: the loop over the children of one class body, with *)
(* the best method found so far and its score.                             *)
NoBest == [range |-> None, max_score |-> 0 - 9999]
RECURSIVE search_class_member(_, _, _, _, _, _, _)
better(range, score, best) ==
    IF score # Rejected /\ score > best.max_score
    THEN [range |-> range, max_score |-> score]
    ELSE best
search_class_member(file, i, j, name, call_args, prefer_field, best) ==
    IF j > Len(file.classes[i].members) THEN best.range
    ELSE IF file.classes[i].members[j].name # name
    THEN search_class_member(file, i, j + 1, name, call_args, prefer_field, best)
    ELSE IF file.classes[i].members[j].is_field THEN NodeRange(i, j)
    ELSE search_class_member(
             file, i, j + 1, name, call_args, prefer_field,
             better(NodeRange(i, j),
                    current_score(file.classes[i].members[j], call_args), best))

(* find_definition_in_file: the method, then every enclosing class. *)
RECURSIVE search_enclosing(_, _, _, _)
search_enclosing(file, i, name, use) ==
    IF i = 0 THEN None
    ELSE OrElse(search_class_member(file, i, 1, name, get_call_args(use),
                                    prefer_field_first(use), NoBest),
                search_enclosing(file, file.classes[i].outer, name, use))

find_definition_in_file(doc, use) ==
    OrElse(search_scope(doc.body, use.name),
           search_enclosing(doc.file, doc.body.cls, use.name, use))

resolve_qualifier(use) ==
    IF use.parent \in {"field_access", "method_invocation"} THEN use.object ELSE None

match_imported_symbol(candidates, imports, target_name) ==
    LET found == [k \in 1..Len(imports) |->
                     IF ends_with(imports[k], target_name)
                     THEN FirstIdx(candidates, LAMBDA loc : loc.fqcn = imports[k])
                     ELSE 0]
        k == FirstIdx(found, LAMBDA n : n # 0)
    IN  IF k = 0 THEN NoLoc ELSE candidates[found[k]]

match_same_package(candidates, package_name, target_name) ==
    LET k == FirstIdx(candidates, LAMBDA loc : loc.fqcn = package_name \o <<target_name>>)
    IN  IF k = 0 THEN NoLoc ELSE candidates[k]

match_same_file(candidates, current_uri) ==
    LET k == FirstIdx(candidates, LAMBDA loc : loc.uri = current_uri)
    IN  IF k = 0 THEN NoLoc ELSE candidates[k]

(* A mutant of match_java_lang: any class of that short name will do. *)
match_java_lang_any(candidates) ==
    IF candidates = <<>> THEN NoLoc ELSE candidates[1]

match_java_lang(candidates) ==
    LET k == FirstIdx(candidates, LAMBDA loc : starts_with(loc.fqcn, <<"java", "lang">>))
    IN  IF k = 0 THEN NoLoc ELSE candidates[k]

(* sort_by_key is stable: the first of the elements with the least key. *)
LexLess(a, b) ==
    \E i \in 1..Len(a) : a[i] < b[i] /\ \A j \in 1..(i - 1) : a[j] = b[j]
FirstByKey(s, Key(_)) ==
    CHOOSE i \in 1..Len(s) :
        /\ \A j \in 1..Len(s) : ~LexLess(Key(s[j]), Key(s[i]))
        /\ \A j \in 1..(i - 1) : LexLess(Key(s[i]), Key(s[j]))

select_fallback(candidates) ==
    IF candidates = <<>> THEN NoLoc
    ELSE LET k == FirstByKey(candidates,
                      LAMBDA loc : <<IF scheme(loc.uri) \in {"file", "untitled"} THEN 0
                                     ELSE IF starts_with(loc.fqcn, <<"java", "lang">>) THEN 1
                                     ELSE 2>>)
         IN  Location(candidates[k].uri, candidates[k].range)

(* resolve_class_from_name: import, package, java.lang, then any class. *)
resolve_class_among(candidates, name, info) ==
    IF candidates = <<>> THEN None
    ELSE FqcnOf(OrLoc(match_imported_symbol(candidates, info.imports, name),
                OrLoc(IF info.package_name = None THEN NoLoc
                      ELSE match_same_package(candidates, info.package_name, name),
                OrLoc(match_java_lang(candidates), candidates[1]))))
resolve_class_from_name(name, h, ord, info) ==
    resolve_class_among(classes_by_short_name(h, ord, name), name, info)

(* resolve_qualifier_fqcn: a dotted qualifier is answered for its first    *)
(* segment, over the same candidates.                                      *)
resolve_qualifier_fqcn(qualifier, class_candidates, info) ==
    LET q == qualifier[1]
        import == FirstIdx(info.imports, LAMBDA imp : ends_with(imp, q))
        lang == match_java_lang(class_candidates)
        any == FirstIdx(class_candidates,
                        LAMBDA c : ends_with(c.fqcn, q) \/ c.fqcn = <<q>>)
    IN  IF import # 0 THEN info.imports[import]
        ELSE IF /\ info.package_name # None
                /\ \E i \in 1..Len(class_candidates) :
                       class_candidates[i].fqcn = info.package_name \o <<q>>
        THEN info.package_name \o <<q>>
        ELSE IF lang # NoLoc THEN lang.fqcn
        ELSE IF any # 0 THEN class_candidates[any].fqcn
        ELSE None

(* GlobalIndex::members_of_class, which state.rs does not define: the      *)
(* members declared directly in the class of that name.                    *)
members_of_class(h, ord, fqcn) ==
    Flatten([i \in 1..Len(ord) |->
        LET hits == SelectSeq(h[ord[i]].members,
                              LAMBDA member : /\ Len(member.fqmn) = Len(fqcn) + 1
                                              /\ starts_with(member.fqmn, fqcn))
        IN  [k \in 1..Len(hits) |-> MemberLocation(hits[k])]])

(* resolve_qualifier_chain: the class of the first segment, then for each  *)
(* further segment the class type of the field of that name.               *)
chain_step(field_type, h, ord, info) ==
    IF field_type.tag # "Class" THEN None
    ELSE OrElse(resolve_class_from_name(field_type.name, h, ord, info), <<field_type.name>>)
RECURSIVE walk_chain(_, _, _, _, _, _)
chain_field_type(members, part) ==
    LET field == FirstIdx(members, LAMBDA m : m.is_field /\ ends_with(m.fqmn, part))
    IN  IF field = 0 THEN Unknown ELSE members[field].field_type
walk_chain(current_fqcn, parts, k, h, ord, info) ==
    IF k > Len(parts) \/ current_fqcn = None THEN current_fqcn
    ELSE walk_chain(
             chain_step(chain_field_type(members_of_class(h, ord, current_fqcn), parts[k]),
                        h, ord, info),
             parts, k + 1, h, ord, info)

resolve_qualifier_chain(qualifier, h, ord, info) ==
    walk_chain(resolve_class_from_name(qualifier[1], h, ord, info), qualifier, 2, h, ord, info)

(* find_identifier_type: the declared type of a local variable or of a     *)
(* field of that name, anywhere in the file.  The walk pops the last child *)
(* first, so the declaration it meets first is the last of the document:   *)
(* the fields of the top-level classes behind the class of the method      *)
(* (which ends its class body), then the local variables of the method,    *)
(* then the other fields, each from the last to the first.                 *)
NoType == ""
FieldTypes(file, ks, name) ==
    Flatten([n \in 1..Len(ks) |->
        LET ms == file.classes[ks[n]].members
            hits == SelectSeq([j \in 1..Len(ms) |-> ms[Len(ms) + 1 - j]],
                              LAMBDA d : d.is_field /\ d.name = name)
        IN  [j \in 1..Len(hits) |-> hits[j].type]])
find_identifier_type(doc, name) ==
    LET n == Len(doc.file.classes)
        down == [k \in 1..n |-> n + 1 - k]
        behind == SelectSeq(down, LAMBDA k : k > doc.body.cls /\ doc.file.classes[k].outer = 0)
        before == SelectSeq(down, LAMBDA k : ~(k > doc.body.cls /\ doc.file.classes[k].outer = 0))
        locals == SelectSeq([k \in 1..Len(doc.body.locals) |->
                                doc.body.locals[Len(doc.body.locals) + 1 - k]],
                            LAMBDA d : d.name = name)
        found == FieldTypes(doc.file, behind, name)
                 \o [k \in 1..Len(locals) |-> locals[k].type]
                 \o FieldTypes(doc.file, before, name)
    IN  IF found = <<>> THEN NoType ELSE found[1]

(* resolve_qualifier_type: a class of that name, then the chain, then the  *)
(* declared type of a variable of that name.  No class has a dotted short  *)
(* name and no variable a dotted name.                                     *)
declared_class(type_name, h, ord, info) ==
    IF type_name = NoType THEN None
    ELSE OrElse(resolve_class_from_name(type_name, h, ord, info), <<type_name>>)
resolve_qualifier_type(doc, qualifier, h, ord, info) ==
    OrElse(resolve_qualifier_fqcn(
               qualifier,
               IF Len(qualifier) = 1
               THEN classes_by_short_name(h, ord, qualifier[1]) ELSE <<>>,
               info),
    OrElse(resolve_qualifier_chain(qualifier, h, ord, info),
           declared_class(IF Len(qualifier) = 1
                          THEN find_identifier_type(doc, qualifier[1]) ELSE NoType,
                          h, ord, info)))

priority_for_uri(uri, fqmn) ==
    IF scheme(uri) \in {"file", "untitled"} THEN 0
    ELSE IF starts_with(fqmn, <<"java">>) THEN 1
    ELSE 2

count_args(use) == IF use.parent = "method_invocation" THEN Len(use.args) ELSE 0

match_member_arity(member, arg_count) ==
    IF member.is_varargs
    THEN arg_count >= (IF member.param_count = 0 THEN 0 ELSE member.param_count - 1)
    ELSE arg_count = member.param_count

(* score_member: a member without parameter types scores 0; an argument   *)
(* beyond the parameter types of a varargs member is scored against the    *)
(* last of them; None (Rejected) when an argument has no parameter or a    *)
(* pair scores negative.                                                   *)
param_idx(member, k) ==
    IF member.is_varargs /\ k > Len(member.param_types)
    THEN Len(member.param_types) ELSE k
member_scores(member, call_args) ==
    [k \in 1..Len(call_args) |->
        IF param_idx(member, k) > Len(member.param_types) THEN Rejected
        ELSE calculate_score(infer(call_args[k]),
                             member.param_types[param_idx(member, k)])]
score_member(member, call_args) ==
    IF member.param_types = <<>> THEN 0
    ELSE accept_scores(member_scores(member, call_args))

Abs(n) == IF n < 0 THEN 0 - n ELSE n
Flag(b) == IF b THEN 1 ELSE 0

select_member(members, fqcn, arg_count, call_args, prefer_method_usage) ==
    LET prefer_field_usage == ~prefer_method_usage /\ call_args = <<>>
        candidates ==
            SelectSeq(members,
                      LAMBDA m : /\ fqcn = <<>> \/ starts_with(m.fqmn, fqcn)
                                 /\ ~prefer_method_usage \/ ~m.is_field
                                 /\ match_member_arity(m, arg_count))
        fallback ==
            FirstByKey(members,
                       LAMBDA m : <<Flag(m.is_varargs), priority_for_uri(m.uri, m.fqmn),
                                    m.param_count>>)
        scored_members ==
            SelectSeq([k \in 1..Len(candidates) |->
                          [m |-> candidates[k],
                           score |-> score_member(candidates[k], call_args)]],
                      LAMBDA e : e.score # Rejected)
        best ==
            FirstByKey(scored_members,
                       LAMBDA e : <<Flag(prefer_field_usage /\ ~e.m.is_field),
                                    Flag(prefer_method_usage /\ e.m.is_field),
                                    Flag(e.m.is_varargs),
                                    0 - e.score,
                                    Abs(e.m.param_count - arg_count),
                                    priority_for_uri(e.m.uri, e.m.fqmn)>>)
    IN  IF candidates = <<>>
        THEN IF members = <<>> THEN NoLoc ELSE LocationOf(members[fallback])
        ELSE IF scored_members = <<>> THEN NoLoc
        ELSE LocationOf(scored_members[best].m)
match_member(doc, use, members, info, h, ord, qualifier, prefer_method_usage_hint) ==
    IF qualifier = None /\ ~prefer_method_usage_hint THEN NoLoc
    ELSE select_member(members,
                       IF qualifier = None THEN None
                       ELSE resolve_qualifier_type(doc, qualifier, h, ord, info),
                       count_args(use), get_call_args(use),
                       use.in_call \/ prefer_method_usage_hint \/ use.followed_by_paren)

(* A mutant of class_steps: the class of the current file is tried first. *)
class_steps_same_file_first(candidates, info, target_name, current_uri) ==
    IF match_same_file(candidates, current_uri) # NoLoc
    THEN match_same_file(candidates, current_uri)
    ELSE IF match_imported_symbol(candidates, info.imports, target_name) # NoLoc
    THEN match_imported_symbol(candidates, info.imports, target_name)
    ELSE IF info.package_name # None
    THEN match_same_package(candidates, info.package_name, target_name)
    ELSE NoLoc

(* A mutant of class_steps: the class of the own package is tried before   *)
(* the explicit import.                                                    *)
class_steps_package_first(candidates, info, target_name, current_uri) ==
    IF /\ info.package_name # None
       /\ match_same_package(candidates, info.package_name, target_name) # NoLoc
    THEN match_same_package(candidates, info.package_name, target_name)
    ELSE IF match_imported_symbol(candidates, info.imports, target_name) # NoLoc
    THEN match_imported_symbol(candidates, info.imports, target_name)
    ELSE match_same_file(candidates, current_uri)

(* The class steps of goto_definition in the order of the code: explicit   *)
(* import, same package, same file.                                        *)
class_steps(candidates, info, target_name, current_uri) ==
    OrLoc(match_imported_symbol(candidates, info.imports, target_name),
    OrLoc(IF info.package_name = None THEN NoLoc
          ELSE match_same_package(candidates, info.package_name, target_name),
          match_same_file(candidates, current_uri)))

goto_definition(h, ord, doc, use, current_uri) ==
    LET target_name == use.name
        global_candidates == classes_by_short_name(h, ord, target_name)
        global_members == members_by_name(h, ord, target_name)
        qualifier == resolve_qualifier(use)
        info == file_info(h, current_uri)
        allow_member_lookup ==
            \/ qualifier # None
            \/ use.kind = "field_identifier"
            \/ use.parent \in {"method_invocation", "field_access"}
    IN  OrLoc(LocationIn(current_uri, find_local_variable(doc.body, target_name)),
        IF use.kind \notin {"identifier", "type_identifier", "field_identifier"}
        THEN NoLoc
        ELSE OrLoc(IF qualifier = None
                   THEN LocationIn(current_uri, find_definition_in_file(doc, use))
                   ELSE NoLoc,
             IF info = NoInfo THEN select_fallback(global_candidates)
             ELSE OrLoc(LocationOf(class_steps(global_candidates, info, target_name,
                                               current_uri)),
                  OrLoc(IF allow_member_lookup
                        THEN match_member(doc, use, global_members, info, h, ord, qualifier,
                                          use.parent = "method_invocation")
                        ELSE NoLoc,
                        LocationOf(match_java_lang(global_candidates))))))

(* Indexer::update_file. *)
update_file(h, uri, f) ==
    IF UrlParse(uri) = Err THEN h
    ELSE upsert_file(h, uri, IndexerOutput(f, UrlParse(uri)))

(* A mutant of IndexOnOpen: did_open stores the document only. *)
IndexOnOpenSkipped(h, uri, f) == h

(* did_open indexes the document it has stored. *)
IndexOnOpen(h, uri, f) == update_file(h, uri, f)

GotoInit ==
    /\ handles = [u \in GotoUris |-> Vacant]
    /\ lastCall = <<>> /\ calls = <<>>
    /\ ConcIdle
    /\ documents = <<>> /\ disk = <<>>
    /\ ipc = "done" /\ dpc = IdleDc
    /\ pending = <<>> /\ prev = NoPrev
    /\ crashed = FALSE
    /\ gdoc = NoDoc /\ gres = NoGoto
    /\ CallIdle

(* did_open of MainUri. *)
OpenDocument ==
    /\ gres = NoGoto
    /\ \E doc \in GotoDocs :
          /\ gdoc' = doc
          /\ handles' = IndexOnOpen(handles, MainUri, doc.file)
    /\ UNCHANGED <<gres, gotoRest>>

(* update_file for a file of the workspace or of the JDK sources. *)
IndexFile ==
    /\ gres = NoGoto
    /\ \E uri \in GotoUris \ {MainUri} : \E f \in GotoFilesFor(uri) :
          handles' = update_file(handles, uri, f)
    /\ UNCHANGED <<gdoc, gres, gotoRest>>

(* The goto_definition handler: the document must be open.  The index      *)
(* iterates its entries in the order its hasher gives.  The handler does   *)
(* not await: nothing else runs before it has answered.                    *)
Goto ==
    /\ gres = NoGoto
    /\ gdoc # NoDoc
    /\ \E use \in Uses : \E ord \in IterOrders(handles) :
          gres' = [use |-> use,
                   loc |-> goto_definition(handles, ord, gdoc, use, MainUri)]
    /\ UNCHANGED <<handles, gdoc, gotoRest>>

(* The answer is sent. *)
GotoReply ==
    /\ gres # NoGoto
    /\ gres' = NoGoto
    /\ UNCHANGED <<handles, gdoc, gotoRest>>

GotoNext == OpenDocument \/ IndexFile \/ Goto \/ GotoReply

SpecGoto == GotoInit /\ [][GotoNext]_vars

(***************************************************************************)
(* JavaService::completion after a qualifier.                              *)
(***************************************************************************)
(* The characters of the names of this model. *)
Chars(name) ==
    CASE name = "m" -> <<"m">>
      [] name = "out" -> <<"o", "u", "t">>
      [] name = "x" -> <<"x">>
      [] OTHER -> <<name>>
str_starts_with(name, prefix) ==
    /\ Len(prefix) <= Len(Chars(name))
    /\ SubSeq(Chars(name), 1, Len(prefix)) = prefix

(* resolve_qualifier_for_completion: the chain, then the declared type of  *)
(* a variable of that name.                                                *)
resolve_qualifier_for_completion(qualifier, h, ord, info, doc) ==
    OrElse(resolve_qualifier_chain(qualifier, h, ord, info),
           declared_class(IF Len(qualifier) = 1
                          THEN find_identifier_type(doc, qualifier[1]) ELSE NoType,
                          h, ord, info))

(* completion with a member context (qualifier, prefix): whether it        *)
(* answers Some(items), and the labels of the items.                       *)
completion(h, ord, doc, qualifier, prefix, current_uri) ==
    LET info == file_info(h, current_uri)
        qualifier_fqcn == resolve_qualifier_for_completion(qualifier, h, ord, info, doc)
        members == members_of_class(h, ord, qualifier_fqcn)
        items == SelectSeq(members,
                           LAMBDA m : str_starts_with(m.fqmn[Len(m.fqmn)], prefix))
    IN  IF info = NoInfo \/ qualifier_fqcn = None
        THEN [qualifier |-> qualifier, prefix |-> prefix, some |-> FALSE, labels |-> {}]
        ELSE [qualifier |-> qualifier, prefix |-> prefix, some |-> TRUE,
              labels |-> {items[k].fqmn[Len(items[k].fqmn)] : k \in 1..Len(items)}]

(***************************************************************************)
(* Calls and member references: documents whose classes declare overloads, *)
(* a chain of fields, and a field and a method of one name.                *)
(***************************************************************************)
CallClassLists ==
    {<<ClassDecl("D", 0, <<MethodOf("m", <<"double">>, FALSE, "void"),
                           MethodOf("m", <<"String">>, TRUE, "void")>>)>>,
     <<ClassDecl("D", 0, <<FieldOf("m", "int"),
                           MethodOf("m", <<"double">>, FALSE, "void"),
                           MethodOf("m", <<"String">>, TRUE, "void")>>)>>,
     <<ClassDecl("D", 0, <<>>),
       ClassDecl("S", 0, <<FieldOf("out", "P")>>),
       ClassDecl("P", 0, <<MethodOf("m", <<"int">>, FALSE, "void"),
                           MethodOf("m", <<"String", "Object">>, TRUE, "void")>>)>>,
     <<ClassDecl("D", 0, <<>>),
       ClassDecl("C", 0, <<FieldOf("m", "int"), MethodOf("m", <<>>, FALSE, "int")>>)>>,
     <<ClassDecl("D", 0, <<MethodOf("m", <<"int", "int">>, FALSE, "void")>>)>>,
     <<ClassDecl("D", 0, <<Method("m")>>), ClassDecl("E", 0, <<FieldOf("x", "int")>>)>>,
     <<ClassDecl("D", 0, <<MethodOf("m", <<"long">>, FALSE, "void"),
                           MethodOf("m", <<"int">>, FALSE, "void")>>)>>}
CallImportLists == {<<>>, <<<<"org", "lib", "S">>>>}
CallBodies ==
    {Body(1, <<>>, <<>>, 0),
     Body(1, <<>>, <<LocalDecl("x", "C")>>, 1),     \* C x; before
     Body(1, <<"m">>, <<>>, 0)}                     \* a parameter named m
CallDocs ==
    [file : [pkg : {<<"org", "x">>}, imports : CallImportLists, classes : CallClassLists],
     body : CallBodies]
CallLibFiles ==
    {[pkg |-> <<"org", "lib">>, imports |-> <<>>,
      classes |-> <<ClassDecl("C", 0, <<MethodOf("m", <<"String", "String">>, FALSE, "void"),
                                        FieldOf("out", "int")>>)>>],
     [pkg |-> <<"org", "lib">>, imports |-> <<>>,
      classes |-> <<ClassDecl("S", 0, <<FieldOf("out", "P")>>),
                    ClassDecl("P", 0, <<MethodOf("m", <<"int">>, FALSE, "void"),
                                        MethodOf("m", <<"String", "Object">>, TRUE,
                                                 "void")>>)>>]}
IntArg == Arg("decimal_integer_literal", "1")
StrArg == Arg("string_literal", "s")
LongArg == Arg("decimal_integer_literal", "1L")
CallUses ==
    {Use("m", "identifier", "method_invocation", None, <<StrArg, StrArg>>, TRUE),   \* m("s", "s")
     Use("m", "identifier", "method_invocation", None, <<StrArg>>, TRUE),           \* m("s")
     Use("m", "identifier", "method_invocation", <<"S", "out">>, <<IntArg>>, TRUE), \* S.out.m(1)
     Use("m", "identifier", "method_invocation", <<"S", "out">>, <<StrArg>>, TRUE), \* S.out.m("s")
     Use("m", "identifier", "field_access", <<"C">>, <<>>, FALSE),                  \* C.m
     Use("m", "identifier", "method_invocation", <<"C">>, <<>>, TRUE),              \* C.m()
     InCall(Use("m", "identifier", "field_access", <<"C">>, <<>>, FALSE)),          \* g(C.m)
     Use("m", "identifier", "method_invocation", <<"C">>, <<IntArg, IntArg>>, TRUE), \* C.m(1, 1)
     Use("m", "identifier", "method_invocation", None, <<LongArg>>, TRUE)}          \* m(1L)
CompletionContexts ==
    [qualifier : {<<"x">>}, prefix : {<<>>, <<"m">>, <<"o">>}]

CallInit ==
    /\ handles = [u \in IndexUris |-> Vacant]
    /\ lastCall = [u \in IndexUris |-> NoCall]
    /\ calls = [u \in IndexUris |-> 0]
    /\ ConcIdle
    /\ DocIdle

CallIdling == gres = NoGoto /\ comp = NoComp

(* did_open of MainUri. *)
CallOpen ==
    /\ CallIdling
    /\ \E doc \in CallDocs :
          /\ gdoc' = doc
          /\ handles' = IndexOnOpen(handles, MainUri, doc.file)
    /\ UNCHANGED <<gres, gotoRest>>

(* update_file for the library file. *)
CallIndex ==
    /\ CallIdling
    /\ \E f \in CallLibFiles : handles' = update_file(handles, LibUri, f)
    /\ UNCHANGED <<gdoc, gres, gotoRest>>

(* The goto_definition handler on a call or a member reference. *)
CallGoto ==
    /\ CallIdling
    /\ gdoc # NoDoc
    /\ \E use \in CallUses : \E ord \in IterOrders(handles) :
          gres' = [use |-> use,
                   loc |-> goto_definition(handles, ord, gdoc, use, MainUri)]
    /\ UNCHANGED <<handles, gdoc, gotoRest>>

(* The completion handler behind `x.` and a prefix. *)
CallComplete ==
    /\ CallIdling
    /\ gdoc # NoDoc
    /\ \E ctx \in CompletionContexts : \E ord \in IterOrders(handles) :
          comp' = completion(handles, ord, gdoc, ctx.qualifier, ctx.prefix, MainUri)
    /\ UNCHANGED <<idxVars, concVars, docVars, gotoVars, scored, lockVars>>

(* The answer is sent. *)
CallReply ==
    /\ ~CallIdling
    /\ gres' = NoGoto /\ comp' = NoComp
    /\ UNCHANGED <<idxVars, concVars, docVars, gdoc, scored, lockVars>>

CallNext == CallOpen \/ CallIndex \/ CallGoto \/ CallComplete \/ CallReply

SpecCall == CallInit /\ [][CallNext]_vars

(***************************************************************************)
(* C7  goto_definition is deterministic: over the same index, document and *)
(* use it gives the same answer whatever the order in which the index      *)
(* iterates its files.                                                     *)
(***************************************************************************)
C7_Deterministic ==
    gres # NoGoto =>
        \A ord \in IterOrders(handles) :
            goto_definition(handles, ord, gdoc, gres.use, MainUri) = gres.loc

(***************************************************************************)
(* C8  Every Location goto_definition answers with names a URI the index   *)
(* holds a file record for, the answers built from current_uri included.   *)
(***************************************************************************)
C8_LocationIndexed ==
    (gres # NoGoto /\ gres.loc # NoLoc) => file_info(handles, gres.loc.uri) # NoInfo

(* The answer is a parameter of the method, built from current_uri. *)
C8_Witness ==
    /\ gres # NoGoto /\ gres.loc # NoLoc
    /\ gres.loc = Location(MainUri, ParamRange(1))

(***************************************************************************)
(* C9  When the target name is the name of a class declared in the current *)
(* file and also the last segment of an explicit import that is the FQCN   *)
(* of an indexed class, the answer is the class of the current file.       *)
(***************************************************************************)
DeclaredClasses(file, name) == {i \in 1..Len(file.classes) : file.classes[i].name = name}
ImportedIndexed(file, h, name) ==
    {k \in 1..Len(file.imports) :
        /\ file.imports[k][Len(file.imports[k])] = name
        /\ \E u \in Occupied(h) : \E i \in 1..Len(h[u].classes) :
               h[u].classes[i].fqcn = file.imports[k]}
IsTypeUse(use) == use.kind = "type_identifier" /\ use.object = None

C9_SameFileBeforeImport ==
    (/\ gres # NoGoto
     /\ IsTypeUse(gres.use)
     /\ DeclaredClasses(gdoc.file, gres.use.name) # {}
     /\ ImportedIndexed(gdoc.file, handles, gres.use.name) # {})
        => /\ gres.loc # NoLoc
           /\ gres.loc.uri = MainUri
           /\ \E i \in DeclaredClasses(gdoc.file, gres.use.name) :
                  gres.loc.range = NodeRange(i, 0)

(***************************************************************************)
(* C10  When the file imports p.C, p.C is an indexed class and the file    *)
(* declares a top-level class C of its own, an unqualified use of C as a   *)
(* type resolves to a URI that holds the imported p.C.                     *)
(***************************************************************************)
TopLevelClasses(file, name) ==
    {i \in DeclaredClasses(file, name) : file.classes[i].outer = 0}
HoldsClass(h, uri, fqcn) ==
    /\ h[uri] # Vacant
    /\ \E i \in 1..Len(h[uri].classes) : h[uri].classes[i].fqcn = fqcn
ImportOverOwnClassCase ==
    /\ gres # NoGoto
    /\ IsTypeUse(gres.use)
    /\ TopLevelClasses(gdoc.file, gres.use.name) # {}
    /\ ImportedIndexed(gdoc.file, handles, gres.use.name) # {}
AnswersImported ==
    /\ gres.loc # NoLoc
    /\ \E k \in ImportedIndexed(gdoc.file, handles, gres.use.name) :
           HoldsClass(handles, gres.loc.uri, gdoc.file.imports[k])

C10_ImportOverOwnClass == ImportOverOwnClassCase => AnswersImported

(* C10, amended: ... and no parameter or local variable of the method and  *)
(* no field or method of the enclosing classes carries the name C (the     *)
(* local lookups answer first).                                            *)
RECURSIVE EnclosingClasses(_, _)
EnclosingClasses(file, i) ==
    IF i = 0 THEN {} ELSE {i} \cup EnclosingClasses(file, file.classes[i].outer)
NoLocalNamed(doc, name) ==
    /\ \A k \in 1..Len(doc.body.params) : doc.body.params[k] # name
    /\ \A k \in 1..Len(doc.body.locals) : doc.body.locals[k].name # name
    /\ \A i \in EnclosingClasses(doc.file, doc.body.cls) :
           \A j \in 1..Len(doc.file.classes[i].members) :
               doc.file.classes[i].members[j].name # name

C10_ImportOverOwnClassNoLocal ==
    (ImportOverOwnClassCase /\ NoLocalNamed(gdoc, gres.use.name)) => AnswersImported

(* A file with a top-level class C, an import of org.x.C that the library  *)
(* file holds, no local of that name: `new C()` went to the library.       *)
C10_Witness ==
    /\ ImportOverOwnClassCase /\ NoLocalNamed(gdoc, gres.use.name)
    /\ gres.loc # NoLoc /\ gres.loc.uri = LibUri

(***************************************************************************)
(* C11  For a call Q.m(...) where the current file declares a class Q with *)
(* a method m and also imports a class with the short name Q, the answer   *)
(* is the method m of the file's own Q, whatever the index holds for the   *)
(* imported class.                                                         *)
(***************************************************************************)
OwnMethods(file, q, name) ==
    UNION {{NodeRange(i, j) : j \in {k \in 1..Len(file.classes[i].members) :
                                       /\ file.classes[i].members[k].name = name
                                       /\ ~file.classes[i].members[k].is_field}} :
           i \in DeclaredClasses(file, q)}
ImportsShortName(file, q) ==
    \E k \in 1..Len(file.imports) : ends_with(file.imports[k], q)
QualifiedCallCase ==
    /\ gres # NoGoto
    /\ gres.use.parent = "method_invocation"
    /\ gres.use.object # None
    /\ Len(gres.use.object) = 1
    /\ OwnMethods(gdoc.file, gres.use.object[1], gres.use.name) # {}
    /\ ImportsShortName(gdoc.file, gres.use.object[1])

C11_OwnClassQualifier ==
    QualifiedCallCase =>
        /\ gres.loc # NoLoc
        /\ gres.loc.uri = MainUri
        /\ gres.loc.range \in OwnMethods(gdoc.file, gres.use.object[1], gres.use.name)

(***************************************************************************)
(* C12  When the target name is the last segment of an explicit import     *)
(* that is the FQCN of an indexed class and the index also holds a class   *)
(* of that name in the package of the current file, the answer is the      *)
(* imported class.                                                         *)
(***************************************************************************)
IndexedAs(h, fqcn) ==
    UNION {{Location(u, h[u].classes[i].range) :
               i \in {k \in 1..Len(h[u].classes) : h[u].classes[k].fqcn = fqcn}} :
           u \in Occupied(h)}
SamePackageIndexed(file, h, name) ==
    /\ package_capture(file) # None
    /\ IndexedAs(h, package_capture(file) \o <<name>>) # {}
ImportAndPackageCase ==
    /\ gres # NoGoto
    /\ ImportedIndexed(gdoc.file, handles, gres.use.name) # {}
    /\ SamePackageIndexed(gdoc.file, handles, gres.use.name)
AnswersImportedClass ==
    /\ gres.loc # NoLoc
    /\ \E k \in ImportedIndexed(gdoc.file, handles, gres.use.name) :
           gres.loc \in IndexedAs(handles, gdoc.file.imports[k])

C12_ImportBeforePackage == ImportAndPackageCase => AnswersImportedClass

(* C12, amended: ... and the local lookups find no declaration of that     *)
(* name (no parameter or local variable of the method, no field or method  *)
(* of an enclosing class).                                                 *)
C12_ImportBeforePackageNoLocal ==
    (ImportAndPackageCase /\ NoLocalNamed(gdoc, gres.use.name)) => AnswersImportedClass

(* The file is in org.x, imports java.lang.C, both org.x.C and java.lang.C *)
(* are indexed: the answer is the class of the JDK sources.                *)
C12_Witness ==
    /\ ImportAndPackageCase /\ NoLocalNamed(gdoc, gres.use.name)
    /\ gdoc.file.imports = <<<<"java", "lang", "C">>>>
    /\ package_capture(gdoc.file) = <<"org", "x">>
    /\ gres.loc # NoLoc /\ gres.loc.uri = StdUri

(***************************************************************************)
(* C13  An unqualified type name that is no class of the current file, no  *)
(* indexed explicit import and no indexed class of the own package         *)
(* resolves to the indexed class of java.lang, never to a class of that    *)
(* name in another package; and when one of the earlier class steps has a  *)
(* match, the answer is not the java.lang step's.                          *)
(***************************************************************************)
JavaLangIndexed(h, name) ==
    UNION {{Location(u, h[u].classes[i].range) :
               i \in {k \in 1..Len(h[u].classes) :
                         /\ h[u].classes[k].short_name = name
                         /\ starts_with(h[u].classes[k].fqcn, <<"java", "lang">>)}} :
           u \in Occupied(h)}
EarlierClassMatches(file, h, name) ==
    {Location(MainUri, NodeRange(i, 0)) : i \in DeclaredClasses(file, name)}
    \cup UNION {IndexedAs(h, file.imports[k]) : k \in ImportedIndexed(file, h, name)}
    \cup (IF package_capture(file) = None THEN {}
          ELSE IndexedAs(h, package_capture(file) \o <<name>>))
JavaLangCase ==
    /\ gres # NoGoto
    /\ IsTypeUse(gres.use)
    /\ EarlierClassMatches(gdoc.file, handles, gres.use.name) = {}
    /\ JavaLangIndexed(handles, gres.use.name) # {}
EarlierClassCase ==
    /\ gres # NoGoto
    /\ IsTypeUse(gres.use)
    /\ EarlierClassMatches(gdoc.file, handles, gres.use.name) # {}

C13_JavaLangLast ==
    /\ JavaLangCase => gres.loc \in JavaLangIndexed(handles, gres.use.name)
    /\ EarlierClassCase =>
           gres.loc \notin (JavaLangIndexed(handles, gres.use.name)
                               \ EarlierClassMatches(gdoc.file, handles, gres.use.name))

(* C13, amended: ... and the local lookups find no declaration of that     *)
(* name.                                                                   *)
C13_JavaLangLastNoLocal ==
    (gres # NoGoto /\ NoLocalNamed(gdoc, gres.use.name)) => C13_JavaLangLast

(* `new C()` in a file without package, import or class C, with org.x.C    *)
(* and java.lang.C indexed: the answer is the class of the JDK sources.    *)
C13_Witness ==
    /\ JavaLangCase /\ NoLocalNamed(gdoc, gres.use.name)
    /\ IndexedAs(handles, <<"org", "x", "C">>) # {}
    /\ gres.loc # NoLoc /\ gres.loc.uri = StdUri

(***************************************************************************)
(* C17  calculate_score gives the score of the table: equal types 100;     *)
(* otherwise an Unknown argument 1; Int to Long 50, Int to Double 50, Int  *)
(* to Float 40, Long to Double 50, Long to Float 40, Float to Double 50;   *)
(* two classes of different names 0; every other pair -100.  And no type   *)
(* scores higher against another type than against itself.                *)
(***************************************************************************)
Widening ==
    {<<"Int", "Long", 50>>, <<"Int", "Double", 50>>, <<"Int", "Float", 40>>,
     <<"Long", "Double", 50>>, <<"Long", "Float", 40>>, <<"Float", "Double", 50>>}
TableScore(a, b) ==
    IF a = b THEN 100
    ELSE IF a = Unknown THEN 1
    ELSE IF \E w \in Widening : w[1] = a.tag /\ w[2] = b.tag
    THEN (CHOOSE w \in Widening : w[1] = a.tag /\ w[2] = b.tag)[3]
    ELSE IF a.tag = "Class" /\ b.tag = "Class" THEN 0
    ELSE 0 - 100

C17_ScoreTable ==
    scored # NoScore =>
        /\ scored.score = TableScore(scored.arg, scored.param)
        /\ \A t \in InferredTypes :
               (t = scored.arg /\ t # scored.param) =>
                   calculate_score(t, t) >= scored.score

(* An Int argument scored against a Float parameter: 40. *)
C17_Witness ==
    /\ scored # NoScore
    /\ scored.arg = Prim("Int") /\ scored.param = Prim("Float")
    /\ scored.score = 40

(***************************************************************************)
(* C14  For an unqualified call f(a1..an): when every fixed-arity overload *)
(* of f in the enclosing class is rejected (the argument count differs     *)
(* from its parameter count, or some argument scores negative against its  *)
(* parameter) and a varargs overload accepts the call (n is at least the   *)
(* number of its fixed parameters and every argument scores non-negative   *)
(* against its parameter or the variadic parameter), goto_definition       *)
(* answers the declaration of a varargs overload in the same URI.          *)
(***************************************************************************)
ParamFor(decl, k) ==
    decl.params[IF k > Len(decl.params) THEN Len(decl.params) ELSE k]
PairNegative(decl, call_args) ==
    \E k \in 1..Len(call_args) :
        calculate_score(infer(call_args[k]), parse_java_type(ParamFor(decl, k))) < 0
OverloadsOf(file, i, name) ==
    {j \in 1..Len(file.classes[i].members) :
        file.classes[i].members[j].name = name /\ ~file.classes[i].members[j].is_field}
AcceptingVarargs(file, i, name, call_args) ==
    {j \in OverloadsOf(file, i, name) :
        /\ file.classes[i].members[j].varargs
        /\ Len(call_args) >= Len(file.classes[i].members[j].params) - 1
        /\ ~PairNegative(file.classes[i].members[j], call_args)}
FixedRejected(file, i, name, call_args) ==
    \A j \in OverloadsOf(file, i, name) :
        ~file.classes[i].members[j].varargs =>
            \/ Len(call_args) # Len(file.classes[i].members[j].params)
            \/ PairNegative(file.classes[i].members[j], call_args)
VarargsCallCase ==
    /\ gres # NoGoto
    /\ gres.use.parent = "method_invocation" /\ gres.use.object = None
    /\ FixedRejected(gdoc.file, gdoc.body.cls, gres.use.name, gres.use.args)
    /\ AcceptingVarargs(gdoc.file, gdoc.body.cls, gres.use.name, gres.use.args) # {}

C14_VarargsOverload ==
    VarargsCallCase =>
        /\ gres.loc # NoLoc
        /\ gres.loc.uri = MainUri
        /\ gres.loc.range \in
               {NodeRange(gdoc.body.cls, j) :
                   j \in AcceptingVarargs(gdoc.file, gdoc.body.cls, gres.use.name,
                                          gres.use.args)}

(***************************************************************************)
(* C15  For a call qualified by a dotted chain a.b, as S.out.m(1):         *)
(* goto_definition resolves a to a class, takes the declared class type of *)
(* the field b of that class, and answers the overload declared in that    *)
(* type whose parameter types score best against the argument types of the *)
(* call (a fixed-arity overload before a varargs one, then the higher      *)
(* score): m(int) and not m(String, Object...) for an integer literal.     *)
(***************************************************************************)
ChainOverloads(h, ord, qualifier, name, call_args) ==
    LET type == resolve_qualifier_chain(qualifier, h, ord, file_info(h, MainUri))
        members == IF type = None THEN <<>> ELSE members_of_class(h, ord, type)
    IN  {members[k] : k \in {n \in 1..Len(members) :
            /\ ends_with(members[n].fqmn, name)
            /\ ~members[n].is_field
            /\ match_member_arity(members[n], Len(call_args))
            /\ score_member(members[n], call_args) # Rejected}}
BestOverloads(h, ord, qualifier, name, call_args) ==
    {m \in ChainOverloads(h, ord, qualifier, name, call_args) :
        \A o \in ChainOverloads(h, ord, qualifier, name, call_args) :
            ~LexLess(<<Flag(o.is_varargs), 0 - score_member(o, call_args)>>,
                     <<Flag(m.is_varargs), 0 - score_member(m, call_args)>>)}
ChainCallCase ==
    /\ gres # NoGoto
    /\ gres.use.parent = "method_invocation"
    /\ gres.use.object # None /\ Len(gres.use.object) = 2
    /\ \A ord \in IterOrders(handles) :
          BestOverloads(handles, ord, gres.use.object, gres.use.name, gres.use.args) # {}

C15_ChainOverload ==
    ChainCallCase =>
        \E ord \in IterOrders(handles) :
            \E m \in BestOverloads(handles, ord, gres.use.object, gres.use.name,
                                   gres.use.args) :
                gres.loc = Location(m.uri, m.range)

(***************************************************************************)
(* C16  For a class Q that declares a field and a method of the same name  *)
(* n: a reference Q.n that is not followed by an argument list resolves to *)
(* the declaration of the field, and a reference Q.n(...) to the           *)
(* declaration of the method.                                              *)
(***************************************************************************)
OwnFields(file, q, name) ==
    UNION {{NodeRange(i, j) :
               j \in {k \in 1..Len(file.classes[i].members) :
                         /\ file.classes[i].members[k].name = name
                         /\ file.classes[i].members[k].is_field}} :
           i \in DeclaredClasses(file, q)}
FieldAndMethodCase ==
    /\ gres # NoGoto
    /\ gres.use.object # None /\ Len(gres.use.object) = 1
    /\ OwnFields(gdoc.file, gres.use.object[1], gres.use.name) # {}
    /\ OwnMethods(gdoc.file, gres.use.object[1], gres.use.name) # {}

C16_FieldOrMethod ==
    FieldAndMethodCase =>
        /\ gres.loc # NoLoc
        /\ gres.loc.uri = MainUri
        /\ gres.loc.range \in
               IF gres.use.parent = "method_invocation"
               THEN OwnMethods(gdoc.file, gres.use.object[1], gres.use.name)
               ELSE OwnFields(gdoc.file, gres.use.object[1], gres.use.name)

(***************************************************************************)
(* C18  On both overload paths (search_class_member for an unqualified     *)
(* call, score_member through match_member for the indexed members) a      *)
(* method for which some pair of an argument and its parameter scores      *)
(* negative is never the definition answered for the call, whatever the    *)
(* other candidates are and also when no candidate survives.               *)
(***************************************************************************)
AnsweredMembers ==
    IF gres.loc = NoLoc \/ handles[gres.loc.uri] = Vacant THEN {}
    ELSE {handles[gres.loc.uri].members[k] :
             k \in {n \in 1..Len(handles[gres.loc.uri].members) :
                       handles[gres.loc.uri].members[n].range = gres.loc.range}}
ScoresNegative(member, call_args) ==
    /\ ~member.is_field
    /\ \E k \in 1..Len(call_args) :
          /\ param_idx(member, k) <= Len(member.param_types)
          /\ calculate_score(infer(call_args[k]),
                             member.param_types[param_idx(member, k)]) < 0

C18_NoNegativePair ==
    (gres # NoGoto /\ gres.use.parent = "method_invocation") =>
        \A member \in AnsweredMembers : ~ScoresNegative(member, gres.use.args)

(***************************************************************************)
(* C19  When the cursor stands at the end of `q.prefix` and q is a local   *)
(* variable whose declared type resolves to an indexed class, completion   *)
(* returns the members of that class whose name starts with the prefix:    *)
(* every indexed member of the class whose name starts with the prefix is  *)
(* among the labels returned.                                              *)
(***************************************************************************)
VisibleLocals(body, name) ==
    {k \in 1..body.use_at : k <= Len(body.locals) /\ body.locals[k].name = name}
DeclaredTypeOf(body, name) ==
    body.locals[CHOOSE k \in VisibleLocals(body, name) :
                    \A l \in VisibleLocals(body, name) : l <= k].type
ExpectedLabels(h, ord, type_name, prefix) ==
    LET members == members_of_class(
                       h, ord, resolve_class_from_name(type_name, h, ord,
                                                       file_info(h, MainUri)))
    IN  {members[k].fqmn[Len(members[k].fqmn)] :
            k \in {n \in 1..Len(members) :
                      str_starts_with(members[n].fqmn[Len(members[n].fqmn)], prefix)}}
LocalQualifierCase ==
    /\ comp # NoComp
    /\ Len(comp.qualifier) = 1
    /\ VisibleLocals(gdoc.body, comp.qualifier[1]) # {}
    /\ \A ord \in IterOrders(handles) :
          resolve_class_from_name(DeclaredTypeOf(gdoc.body, comp.qualifier[1]),
                                  handles, ord, file_info(handles, MainUri)) # None

C19_CompletionOfLocal ==
    LocalQualifierCase =>
        \E ord \in IterOrders(handles) :
            ExpectedLabels(handles, ord, DeclaredTypeOf(gdoc.body, comp.qualifier[1]),
                           comp.prefix) \subseteq comp.labels

(***************************************************************************)
(* C20: Indexer::update_file is idempotent.  In every state of the index,  *)
(* for every uri whose last update was made from a tree f, applying        *)
(* update_file to the same (uri, f) once more leaves the whole index as it *)
(* is: the same file facts, class records and member records for that uri  *)
(* and no change to the records of any other uri.                          *)
(***************************************************************************)
LastTrees(u) == {f \in FilesFor(u) : IndexerOutput(f, UrlParse(u)) = lastCall[u]}

C20_UpdateIdempotent ==
    \A u \in IndexUris : \A f \in LastTrees(u) :
        update_file(handles, u, f) = handles

(* The main file was updated from a tree that declares classes and         *)
(* members, while the library file is indexed as well.                     *)
C20_Witness ==
    /\ calls[MainUri] >= 1
    /\ handles[LibUri] # Vacant
    /\ \E f \in LastTrees(MainUri) :
           /\ Len(handles[MainUri].classes) >= 1
           /\ Len(handles[MainUri].members) >= 1
           /\ update_file(handles, MainUri, f)[LibUri] = handles[LibUri]

(***************************************************************************)
(* C21: a lookup is never blocked by an upsert_file of another file.       *)
(* Whenever file_info(u) waits for the storage while a thread is inside    *)
(* upsert_file for a uri other than u, the storage can be taken: the       *)
(* lookup is able to make its next step.                                   *)
(***************************************************************************)
WriterInside == wpc \notin {"idle", "lock"}

C21_ReaderNotBlocked ==
    (/\ rpc = "lock" /\ rq.kind = "file_info"
     /\ WriterInside /\ wargs.uri # rq.uri)
        => storage = "free"

(***************************************************************************)
(* The handlers under concurrency (src/src/backend.rs).  tower-lsp runs    *)
(* the handlers of the messages it has received concurrently; each step    *)
(* below is one acquisition of a lock, or the code a handler runs between  *)
(* two acquisitions.  LspBackend.documents is a DashMap: get and get_mut   *)
(* return a guard that holds the read or the write lock of the shard the   *)
(* key hashes to, and insert takes the write lock for the call.  Every     *)
(* .java document goes through the one Mutex of the java parser.  What the *)
(* edits do to rope and tree is the subject of SpecDoc; here a handler's   *)
(* position tells what it holds and what it is about to touch.             *)
(***************************************************************************)
Handlers == {"t1", "t2"}
HandlerKinds == {"did_open", "did_change", "query", "index_single_file"}
ShardIds == {"s1", "s2"}

IdleTask == [kind |-> "none", uri |-> "none", pc |-> "idle"]
FreeShard == [writer |-> "none", readers |-> {}]

(* The tree a handler hands to update_file. *)
LockTree ==
    [pkg |-> <<"org", "x">>, imports |-> <<>>, classes |-> <<ClassDecl("C", 0, <<>>)>>]

LockInit ==
    /\ handles = [u \in IndexUris |-> Vacant]
    /\ lastCall = [u \in IndexUris |-> NoCall]
    /\ calls = [u \in IndexUris |-> 0]
    /\ ConcIdle
    /\ documents = <<>> /\ disk = <<>>
    /\ ipc = "none" /\ dpc = "idle"
    /\ pending = <<>> /\ prev = NoPrev
    /\ crashed = FALSE
    /\ gdoc = NoDoc /\ gres = NoGoto
    /\ scored = NoScore /\ comp = NoComp
    /\ tasks = [t \in Handlers |-> IdleTask]
    /\ shards = [s \in ShardIds |-> FreeShard]
    /\ \E s \in ShardIds : shardOf = [u \in IndexUris |-> IF u = MainUri THEN "s1" ELSE s]
    /\ parser = "none"
    /\ opened = {}

lockRest == <<lastCall, calls, concVars, docVars, gotoVars, scored, comp, shardOf>>

ShardOfTask(t) == shards[shardOf[tasks[t].uri]]

(* A mutant of WriteFree: the write lock is given while guards of readers  *)
(* are alive.                                                              *)
WriteFreeAmongReaders(shard) == shard.writer = "none"

(* The write lock of a shard is free when nobody holds a guard on it. *)
WriteFree(shard) == shard.writer = "none" /\ shard.readers = {}

(* The read lock is free when no write guard is alive. *)
ReadFree(shard) == shard.writer = "none"

At(t, kind, pc) == tasks[t].kind = kind /\ tasks[t].pc = pc
Goes(t, pc) == tasks' = [tasks EXCEPT ![t].pc = pc]

(* A message arrives and its handler starts. *)
Receive(t) ==
    /\ tasks[t].pc = "idle"
    /\ \E kind \in HandlerKinds : \E uri \in IndexUris :
          tasks' = [tasks EXCEPT ![t] =
              [kind |-> kind, uri |-> uri,
               pc |-> CASE kind = "did_open" -> "lock_parser"
                        [] kind = "did_change" -> "get_mut"
                        [] kind = "query" -> "get"
                        [] kind = "index_single_file" -> "lock_parser"]]
    /\ UNCHANGED <<handles, shards, parser, opened, lockRest>>

(* parser.lock().await: did_open and index_single_file take the parser     *)
(* first, did_change takes it with the RefMut of its document alive.       *)
LockParser(t) ==
    /\ tasks[t].pc = "lock_parser"
    /\ parser = "none"
    /\ parser' = t
    /\ Goes(t, CASE tasks[t].kind = "did_open" -> "insert"
                 [] tasks[t].kind = "did_change" -> "edit"
                 [] tasks[t].kind = "index_single_file" -> "update_file")
    /\ UNCHANGED <<handles, shards, opened, lockRest>>

(* did_open: self.documents.insert(uri, Document { text, tree }). *)
Insert(t) ==
    /\ At(t, "did_open", "insert")
    /\ WriteFree(ShardOfTask(t))
    /\ opened' = opened \cup {tasks[t].uri}
    /\ Goes(t, "get")
    /\ UNCHANGED <<handles, shards, parser, lockRest>>

(* self.documents.get(&uri): the Ref lives to the end of the `if let`. *)
Get(t) ==
    /\ tasks[t].pc = "get"
    /\ ReadFree(ShardOfTask(t))
    /\ IF tasks[t].uri \in opened
       THEN /\ shards' = [shards EXCEPT ![shardOf[tasks[t].uri]].readers = @ \cup {t}]
            /\ Goes(t, IF tasks[t].kind = "did_open" THEN "update_file" ELSE "service")
       ELSE /\ shards' = shards
            /\ Goes(t, "return")
    /\ UNCHANGED <<handles, parser, opened, lockRest>>

(* did_change: self.documents.get_mut(&uri); the RefMut lives to the end   *)
(* of the handler.                                                         *)
GetMut(t) ==
    /\ At(t, "did_change", "get_mut")
    /\ WriteFree(ShardOfTask(t))
    /\ IF tasks[t].uri \in opened
       THEN /\ shards' = [shards EXCEPT ![shardOf[tasks[t].uri]].writer = t]
            /\ Goes(t, "lock_parser")
       ELSE /\ shards' = shards
            /\ Goes(t, "return")
    /\ UNCHANGED <<handles, parser, opened, lockRest>>

(* did_change: the content changes are applied to doc.text and doc.tree    *)
(* and the rope is parsed again.                                           *)
Edit(t) ==
    /\ At(t, "did_change", "edit")
    /\ Goes(t, "update_file")
    /\ UNCHANGED <<handles, shards, parser, opened, lockRest>>

(* Indexer::update_file(&self.index, &uri, &doc.tree, &doc.text). *)
LockUpdateFile(t) ==
    /\ tasks[t].pc = "update_file"
    /\ handles' = update_file(handles, tasks[t].uri, LockTree)
    /\ Goes(t, "return")
    /\ UNCHANGED <<shards, parser, opened, lockRest>>

(* document_symbol, goto_definition, completion: the service reads         *)
(* doc.tree and doc.text.                                                  *)
Service(t) ==
    /\ At(t, "query", "service")
    /\ Goes(t, "return")
    /\ UNCHANGED <<handles, shards, parser, opened, lockRest>>

(* The handler returns: its guards are dropped. *)
Return(t) ==
    /\ tasks[t].pc = "return"
    /\ shards' = [s \in ShardIds |->
                     [writer  |-> IF shards[s].writer = t THEN "none" ELSE shards[s].writer,
                      readers |-> shards[s].readers \ {t}]]
    /\ parser' = IF parser = t THEN "none" ELSE parser
    /\ tasks' = [tasks EXCEPT ![t] = IdleTask]
    /\ UNCHANGED <<handles, opened, lockRest>>

Receiving == \E t \in Handlers : Receive(t)
LockingParser == \E t \in Handlers : LockParser(t)
Inserting == \E t \in Handlers : Insert(t)
Getting == \E t \in Handlers : Get(t)
GettingMut == \E t \in Handlers : GetMut(t)
Editing == \E t \in Handlers : Edit(t)
UpdatingFile == \E t \in Handlers : LockUpdateFile(t)
ServingQuery == \E t \in Handlers : Service(t)
Returning == \E t \in Handlers : Return(t)

LockNext ==
    \/ Receiving \/ LockingParser \/ Inserting \/ Getting \/ GettingMut
    \/ Editing \/ UpdatingFile \/ ServingQuery \/ Returning

SpecLock == LockInit /\ [][LockNext]_vars

(***************************************************************************)
(* C22: handlers working on the same document are serialized.  While a     *)
(* did_change is between taking its document and returning (it edits rope  *)
(* and tree, parses and indexes them), no other did_change and no query    *)
(* (document_symbol, goto_definition, completion) is at work on the        *)
(* document of the same uri.  Handlers on different uris are at work at    *)
(* the same time: the state of C22_Witness.                                *)
(***************************************************************************)
InChange(t) == tasks[t].kind = "did_change" /\ tasks[t].pc \in {"edit", "update_file"}
InQuery(t) == At(t, "query", "service")

C22_SameUriSerialized ==
    \A t \in Handlers : \A u \in Handlers \ {t} :
        (InChange(t) /\ tasks[u].uri = tasks[t].uri)
            => ~InChange(u) /\ ~InQuery(u)

(* A did_change is about to edit one document while a query reads another. *)
C22_Witness ==
    \E t \in Handlers : \E u \in Handlers :
        /\ At(t, "did_change", "edit") /\ InQuery(u)
        /\ tasks[t].uri # tasks[u].uri
        /\ shards[shardOf[tasks[t].uri]].writer = t
        /\ u \in shards[shardOf[tasks[u].uri]].readers

(***************************************************************************)
(* C23: no handler holds the lock of a document entry while it writes to   *)
(* the global index.  When did_open or did_change is about to run          *)
(* Indexer::update_file, it holds neither a read nor a write guard on a    *)
(* shard of the documents map.                                             *)
(***************************************************************************)
HoldsDocument(t) ==
    \E s \in ShardIds : shards[s].writer = t \/ t \in shards[s].readers

C23_NoGuardAcrossIndexWrite ==
    \A t \in Handlers :
        (tasks[t].kind \in {"did_open", "did_change"} /\ tasks[t].pc = "update_file")
            => ~HoldsDocument(t)

(***************************************************************************)
(* C29: did_open and did_change handlers that run concurrently never       *)
(* deadlock.  No two handlers wait for each other: there is no state in    *)
(* which one waits for a lock the other holds while the other waits for a  *)
(* lock the first holds, a state neither of them ever leaves.              *)
(***************************************************************************)
WaitsFor(t, u) ==
    \/ tasks[t].pc = "lock_parser" /\ parser = u
    \/ /\ tasks[t].pc \in {"insert", "get_mut"}
       /\ ShardOfTask(t).writer = u \/ u \in ShardOfTask(t).readers
    \/ tasks[t].pc = "get" /\ ShardOfTask(t).writer = u

C29_NoDeadlock ==
    \A t \in Handlers : \A u \in Handlers \ {t} :
        ~(WaitsFor(t, u) /\ WaitsFor(u, t))

(***************************************************************************)
(* C24: an unqualified identifier never resolves to a local variable       *)
(* declaration that starts after the reference.  Whenever goto_definition  *)
(* answers an identifier without a qualifier with a local declaration of   *)
(* the enclosing method body, that declaration is one of those that begin  *)
(* before the identifier.                                                  *)
(***************************************************************************)
LocalRanges(from, to) == {LocalRange(k) : k \in from..to}

AnswersLocal ==
    /\ gres # NoGoto /\ gdoc # NoDoc
    /\ resolve_qualifier(gres.use) = None
    /\ gres.loc # NoLoc
    /\ gres.loc.range \in LocalRanges(1, Len(gdoc.body.locals))

C24_NoForwardLocal ==
    AnswersLocal => gres.loc.range \in LocalRanges(1, gdoc.body.use_at)

(***************************************************************************)
(* C25: an identifier with a qualifier is not resolved to a parameter or   *)
(* local variable.  Whenever goto_definition is asked for the member name  *)
(* of a field_access, or of a method_invocation that has an object, its    *)
(* answer is not a parameter or a local variable declaration of the        *)
(* enclosing method.                                                       *)
(***************************************************************************)
ParamRanges(body) == {ParamRange(k) : k \in 1..Len(body.params)}

QualifiedMemberUse ==
    /\ gres # NoGoto /\ gdoc # NoDoc
    /\ resolve_qualifier(gres.use) # None
    /\ gres.use.name \notin Range(gres.use.object)

C25_QualifiedNotLocal ==
    (QualifiedMemberUse /\ gres.loc # NoLoc)
        => gres.loc.range \notin
               ParamRanges(gdoc.body) \cup LocalRanges(1, Len(gdoc.body.locals))

(***************************************************************************)
(* C26: an unqualified identifier that names both a field and a method of  *)
(* the enclosing class resolves to the field when it is not the name of a  *)
(* method_invocation, and to the best-scoring method overload when it is,  *)
(* wherever the field and the methods stand in the class body.             *)
(***************************************************************************)
FieldsOf(file, i, name) ==
    {j \in 1..Len(file.classes[i].members) :
        file.classes[i].members[j].name = name /\ file.classes[i].members[j].is_field}

BestMethods(file, i, name, call_args) ==
    {j \in OverloadsOf(file, i, name) :
        /\ current_score(file.classes[i].members[j], call_args) # Rejected
        /\ \A k \in OverloadsOf(file, i, name) :
               current_score(file.classes[i].members[k], call_args)
                   <= current_score(file.classes[i].members[j], call_args)}

OwnFieldAndMethodCase ==
    /\ gres # NoGoto /\ gdoc # NoDoc
    /\ resolve_qualifier(gres.use) = None
    /\ search_scope(gdoc.body, gres.use.name) = None
    /\ gres.use.name \notin Range(gdoc.body.params)
    /\ FieldsOf(gdoc.file, gdoc.body.cls, gres.use.name) # {}
    /\ OverloadsOf(gdoc.file, gdoc.body.cls, gres.use.name) # {}
    /\ gres.use.parent = "method_invocation" =>
           BestMethods(gdoc.file, gdoc.body.cls, gres.use.name, gres.use.args) # {}

C26_FieldOrBestMethod ==
    OwnFieldAndMethodCase =>
        /\ gres.loc # NoLoc
        /\ gres.loc.uri = MainUri
        /\ gres.loc.range \in
               {NodeRange(gdoc.body.cls, j) :
                   j \in IF gres.use.parent = "method_invocation"
                         THEN BestMethods(gdoc.file, gdoc.body.cls, gres.use.name,
                                          gres.use.args)
                         ELSE FieldsOf(gdoc.file, gdoc.body.cls, gres.use.name)}

(***************************************************************************)
(* C27: in the member lookup through a qualifier, when members pass the    *)
(* class and arity filters but scoring rejects every one of them, the      *)
(* answer of goto_definition is still a member: one of the arity-filtered  *)
(* members, the first in priority order.                                   *)
(***************************************************************************)
ArityFiltered(h, ord, doc, use) ==
    LET fqcn == resolve_qualifier_type(doc, resolve_qualifier(use), h, ord,
                                       file_info(h, MainUri))
    IN  SelectSeq(members_by_name(h, ord, use.name),
                  LAMBDA m : /\ fqcn = <<>> \/ starts_with(m.fqmn, fqcn)
                             /\ ~m.is_field
                             /\ match_member_arity(m, Len(use.args)))

FirstInPriority(members) ==
    {Location(members[k].uri, members[k].range) :
        k \in {n \in 1..Len(members) :
                  \A j \in 1..Len(members) :
                      priority_for_uri(members[n].uri, members[n].fqmn)
                          <= priority_for_uri(members[j].uri, members[j].fqmn)}}

AllRejected(members, call_args) ==
    /\ members # <<>>
    /\ \A k \in 1..Len(members) : score_member(members[k], call_args) = Rejected

ScoringRejectsAllCase(filtered) ==
    /\ gres.use.parent = "method_invocation"
    /\ resolve_qualifier(gres.use) # None
    /\ gres.use.name \notin Range(gdoc.body.params)
    /\ handles[MainUri] # Vacant
    /\ AllRejected(filtered, gres.use.args)

FallbackAnswered(filtered) ==
    ScoringRejectsAllCase(filtered) => gres.loc \in FirstInPriority(filtered)

C27_FallbackToArityFiltered ==
    (gres # NoGoto /\ gdoc # NoDoc) =>
        FallbackAnswered(ArityFiltered(handles, CHOOSE o \in IterOrders(handles) : TRUE,
                                       gdoc, gres.use))

(***************************************************************************)
(* C28: the type solver gives Int for a decimal integer literal unless the *)
(* literal ends in L or l, and then Long.  Every argument of the call      *)
(* goto_definition was asked about that is a decimal integer literal is    *)
(* scored as Long when it carries the suffix and as Int when it does not.  *)
(***************************************************************************)
LongLiterals == {"1L", "1l"}

LiteralType(arg) == IF arg.text \in LongLiterals THEN Prim("Long") ELSE Prim("Int")

C28_LongLiteral ==
    gres # NoGoto =>
        \A k \in 1..Len(get_call_args(gres.use)) :
            get_call_args(gres.use)[k].kind = "decimal_integer_literal" =>
                infer(get_call_args(gres.use)[k]) = LiteralType(get_call_args(gres.use)[k])

(***************************************************************************)
(* C30: a ranged change whose lines are within the rope but whose          *)
(* character offsets put the start or the end char index past the end of   *)
(* the rope is skipped: the handler does not fail, the rope stays what it  *)
(* was, and the changes behind it in the event are the ones still to be    *)
(* applied.                                                                *)
(***************************************************************************)
CharOutOfRange(change, t) ==
    /\ change.range # NoRange
    /\ ~LineOutOfRange(change, t)
    /\ \/ start_char_idx(t, change.range) > len_chars(t)
       \/ end_char_idx(t, change.range) > len_chars(t)

C30_CharOutOfRangeSkipped ==
    (prev # NoPrev /\ CharOutOfRange(Head(prev.pending), prev.text)) =>
        /\ ~crashed
        /\ documents[prev.uri].text = prev.text
        /\ dpc # IdleDc => pending = Tail(prev.pending)

====
